---- MODULE Spec2Model ----
(***************************************************************************)
(* Model of the qafoia migration engine (qafoia.go) running against one    *)
(* SQL driver (driver_postgres.go; driver_mysql.go has the same            *)
(* Apply/Unapply loops) and the database behind it.                        *)
(*                                                                         *)
(* A name is a sequence of character codes, ordered as sort.Strings and    *)
(* ORDER BY name order it.  Every engine operation is one action: it runs  *)
(* the whole Go method against the database, statement by statement, and   *)
(* leaves behind what the caller can observe: the returned error, the      *)
(* driver calls, hooks and statements of the operation (trace), and the    *)
(* state the operation started from (pre).  A statement fails when the     *)
(* database cannot execute it (missing table, duplicate key) or when it is *)
(* the one statement of the call chosen to fail.                           *)
(*                                                                         *)
(* Spec observes one call at a time; SpecSeq lets Migrate and Rollback     *)
(* calls follow one another, for what is said about consecutive calls;     *)
(* SpecNew starts before the engine is constructed and observes New and    *)
(* the calls that validate their arguments; SpecCli drives the engine      *)
(* through the commands of Cli.Execute.                                    *)
(***************************************************************************)
EXTENDS Integers, Sequences, FiniteSets, TLC

\* Bounds of the model.
MaxClock == 5      \* executed_at timestamps handed out in one behaviour
MaxFail  == 7      \* the injected failure hits one of the first MaxFail statements
MaxArgs  == 2      \* arguments of one Register call
MaxStep  == 4      \* largest step passed to Rollback

VARIABLES
    migrations,    \* Qafoia.migrations: name -> Migration
    tbl,           \* database: the bookkeeping table exists
    rows,          \* database: rows of the bookkeeping table, [name, executedAt]
    clock,         \* database/host clock: last timestamp handed out
    op,            \* the last engine operation and its arguments
    pre,           \* registry and database as that operation found them
    trace,         \* driver calls, hooks and statements of that operation
    err,           \* error it returned (<<>> is nil)
    out,           \* list it returned (List)
    config,        \* the caller's *Config (<<>> is nil)
    q,             \* the *Qafoia that New returned (<<>> is nil)
    fs,            \* host file system: the paths that exist
    migrationTableName,  \* driver: the name of the bookkeeping table
    cli,           \* the last command line run by Cli.Execute and its outcome
    mu,            \* q.mu: the thread that holds it (0 is unlocked)
    calls,         \* per thread: the call it is in, statement by statement
    foreignKeyChecks  \* MySQL session: FOREIGN_KEY_CHECKS is 1

vars == <<migrations, tbl, rows, clock, op, pre, trace, err, out,
          config, q, fs, migrationTableName, cli, mu, calls, foreignKeyChecks>>
\* what only calls made from several threads touch
threads == <<mu, calls>>
\* what only New touches
setup == <<config, q, fs, migrationTableName>>

----------------------------------------------------------------------------
\* Names and their order

EmptyName == <<>>
Names == { <<1>>, <<1, 1>>, <<2>> }

\* strings compare bytewise, a proper prefix first (sort.Strings, ORDER BY name)
RECURSIVE LexLess(_, _)
LexLess(a, b) ==
    IF a = <<>> THEN b # <<>>
    ELSE IF b = <<>> THEN FALSE
    ELSE IF Head(a) # Head(b) THEN Head(a) < Head(b)
    ELSE LexLess(Tail(a), Tail(b))

\* type Migration interface { Name(); UpScript(); DownScript() }
Mig(name, up, down) == [name |-> name, up |-> up, down |-> down]

Migrations ==
    { Mig(<<1>>, "CREATE a", "DROP a"),
      Mig(<<1>>, "", ""),
      Mig(<<1, 1>>, "CREATE aa", "DROP aa"),
      Mig(<<2>>, "CREATE b", ""),
      Mig(EmptyName, "CREATE x", "DROP x") }

\* type ExecutedMigration struct { Name; ExecutedAt }
ExecutedMigration(name, at) == [name |-> name, executedAt |-> at]

----------------------------------------------------------------------------
\* Errors: a chain of wrapped messages, outermost first; Nil is no error

Nil == <<>>
NewError(msg) == << [msg |-> msg, n |-> EmptyName] >>
Errorf(msg, n, e) == << [msg |-> msg, n |-> n] >> \o e

DbError == NewError("database error")
ErrMigrationNameNotProvided == NewError("migration name not provided")
ErrInvalidRollbackStep == NewError("invalid rollback step")
ErrConfigNotProvided == NewError("config not provided")
ErrMigrationFileAlreadyExists == NewError("migration file already exists")
ErrDriverNotProvided == NewError("driver not provided")

----------------------------------------------------------------------------
\* What an operation leaves in the trace

Ev(k, n, l, r) == [k |-> k, n |-> n, l |-> l, r |-> r]
Call(k) == Ev(k, EmptyName, <<>>, FALSE)
CallRev(k, reverse) == Ev(k, EmptyName, <<>>, reverse)
CallList(k, ms) == Ev(k, EmptyName, [i \in DOMAIN ms |-> ms[i].name], FALSE)
Hook(k, n) == Ev(k, n, <<>>, FALSE)
Stmt(k, n) == Ev(k, n, <<>>, FALSE)

DriverCalls ==
    { "CreateMigrationsTable", "GetExecutedMigrations", "CleanDatabase",
      "ApplyMigrations", "UnapplyMigrations" }

----------------------------------------------------------------------------
\* The database session of one operation: the state of the database, the
\* number of statements sent so far, and the statement that is going to fail

Session(t, rs, c, failAt) ==
    [tbl |-> t, rows |-> rs, clock |-> c, n |-> 0, failAt |-> failAt, tr |-> <<>>]

Log(w, e) == [w EXCEPT !.tr = Append(@, e)]
Send(w) == [w EXCEPT !.n = @ + 1]
Failing(w) == w.n = w.failAt

Ret(w, e) == [w |-> w, err |-> e]
RetVal(w, e, v) == [w |-> w, err |-> e, val |-> v]

----------------------------------------------------------------------------
\* helper.go

Reverse(s) == [i \in DOMAIN s |-> s[Len(s) + 1 - i]]

\* the least name of a non-empty set
MinName(S) == CHOOSE a \in S : \A b \in S : a = b \/ LexLess(a, b)

RECURSIVE SortStrings(_)
SortStrings(S) ==
    IF S = {} THEN <<>>
    ELSE LET a == MinName(S) IN <<a>> \o SortStrings(S \ {a})

\* mutant: the keys without sort.Strings, in an order the map may yield
getSortedMigrationName_Unsorted(reg) == Reverse(SortStrings(DOMAIN reg))

\* keys of the map, then sort.Strings
getSortedMigrationName(reg) == SortStrings(DOMAIN reg)

\* table names are sequences of character codes; "" is <<>>
DefaultTableName == <<109, 105, 103, 114, 97, 116, 105, 111, 110, 115>>
TableNames ==
    { <<>>,                    \* ""
      <<116, 95, 49>>,         \* "t_1"
      <<116, 32, 49>>,         \* "t 1"
      <<116, 59>>,             \* "t;"
      <<116, 10>> }            \* "t\n"

\* [a-zA-Z0-9_]
IsWordChar(c) == c \in (48..57) \cup (65..90) \cup (97..122) \cup {95}

\* mutant: the pattern without its anchors
sanitizeTableName_Unanchored(name) ==
    IF \E i \in DOMAIN name : IsWordChar(name[i])
    THEN [val |-> name, err |-> Nil]
    ELSE [val |-> <<>>, err |-> NewError("invalid table name")]

\* ^[a-zA-Z0-9_]+$
sanitizeTableName(name) ==
    IF Len(name) >= 1 /\ \A i \in DOMAIN name : IsWordChar(name[i])
    THEN [val |-> name, err |-> Nil]
    ELSE [val |-> <<>>, err |-> NewError("invalid table name")]

\* the file system holds paths: <<dir>> is a directory, <<dir, timestamp,
\* name>> the file dir/timestamp_name.go
\* os.Stat on the directory
migrationDirExists(files, migrationFilesDir) == <<migrationFilesDir>> \in files

\* os.Stat on the file
fileExists(files, fileName) == fileName \in files

\* strings.ReplaceAll for a one-character pattern
ReplaceAll(s, old, new) == [i \in DOMAIN s |-> IF s[i] = old THEN new ELSE s[i]]

\* unicode.ToLower on the characters used here: A-Z, and the Kelvin sign
\* U+212A, whose lower case is k
ToLowerRune(c) ==
    IF c \in 65..90 THEN c + 32
    ELSE IF c = 8490 THEN 107
    ELSE c
ToLower(s) == [i \in DOMAIN s |-> ToLowerRune(s[i])]

\* unicode.IsSpace
IsSpace(c) == c \in {9, 10, 11, 12, 13, 32, 133, 160}

\* strings.TrimSpace / strings.Trim(s, cutset): the longest stretch of s
\* that neither begins nor ends with a character of the cutset
TrimSet(s, cut) ==
    LET keep == { i \in DOMAIN s : s[i] \notin cut }
        lo == CHOOSE i \in keep : \A j \in keep : i <= j
        hi == CHOOSE i \in keep : \A j \in keep : j <= i
    IN  IF keep = {} THEN <<>> ELSE SubSeq(s, lo, hi)
TrimSpace(s) == TrimSet(s, {9, 10, 11, 12, 13, 32, 133, 160})
Trim(s, cut) == TrimSet(s, cut)

\* bytes of the UTF-8 encoding
RuneLen(c) == IF c < 128 THEN 1 ELSE IF c < 2048 THEN 2 ELSE 3
ByteLen(s) ==
    Len(s) + Cardinality({ i \in DOMAIN s : s[i] >= 128 })
           + Cardinality({ i \in DOMAIN s : s[i] >= 2048 })

\* sanitizeMigrationName keeps the first 200 bytes
NameLimit == 200
\* what is left of a character cut in the middle of its encoding
BrokenRune == 65533

\* name[:n] for a name longer than n bytes
Slice(s, n) ==
    LET whole == Cardinality({ i \in DOMAIN s : ByteLen(SubSeq(s, 1, i)) <= n })
    IN  IF whole < Len(s) /\ ByteLen(SubSeq(s, 1, whole)) < n
        THEN SubSeq(s, 1, whole) \o <<BrokenRune>>
        ELSE SubSeq(s, 1, whole)

\* mutant: the name keeps its case
sanitizeMigrationName_KeepsCase(name0) ==
    LET n1 == ReplaceAll(name0, 45, 95)
        n2 == ReplaceAll(n1, 32, 95)
        n5 == TrimSpace(n2)
        n6 == Trim(n5, {95})
        name == IF ByteLen(n6) > NameLimit THEN Slice(n6, NameLimit) ELSE n6
    IN  IF Len(name) >= 1 /\ \A i \in DOMAIN name : IsWordChar(name[i])
        THEN [val |-> name, err |-> Nil]
        ELSE [val |-> <<>>, err |-> NewError("invalid migration name")]

sanitizeMigrationName(name0) ==
    LET n1 == ReplaceAll(name0, 45, 95)
        n2 == ReplaceAll(n1, 32, 95)
        n3 == ReplaceAll(n2, 32, 95)
        n4 == ToLower(n3)
        n5 == TrimSpace(n4)
        n6 == Trim(n5, {95})
        name == IF ByteLen(n6) > NameLimit THEN Slice(n6, NameLimit) ELSE n6
    IN  IF Len(name) >= 1 /\ \A i \in DOMAIN name : IsWordChar(name[i])
        THEN [val |-> name, err |-> Nil]
        ELSE [val |-> <<>>, err |-> NewError("invalid migration name")]

----------------------------------------------------------------------------
\* driver_postgres.go / driver_mysql.go

\* SELECT name, executed_at ... ORDER BY name ASC: the rows, least name first
RECURSIVE OrderByName(_)
OrderByName(rs) ==
    IF rs = {} THEN <<>>
    ELSE LET a == MinName({ r.name : r \in rs })
             r == CHOOSE x \in rs : x.name = a
         IN  <<r>> \o OrderByName(rs \ {r})

\* CREATE TABLE IF NOT EXISTS
CreateMigrationsTable(w0) ==
    LET w == Send(Log(w0, Call("CreateMigrationsTable")))
    IN  IF Failing(w) THEN Ret(w, DbError)
        ELSE Ret([w EXCEPT !.tbl = TRUE], Nil)

\* the query fails when the table does not exist
GetExecutedMigrations(w0, reverse) ==
    LET w == Send(Log(w0, CallRev("GetExecutedMigrations", reverse)))
    IN  IF Failing(w) \/ ~w.tbl THEN RetVal(w, DbError, <<>>)
        ELSE RetVal(w, Nil, IF reverse THEN Reverse(OrderByName(w.rows))
                                       ELSE OrderByName(w.rows))

\* the tables of the schema are queried and, when there are any, dropped;
\* the bookkeeping table stands for the tables of the schema
CleanDatabase(w0) ==
    LET w1 == Send(Log(w0, Call("CleanDatabase")))
    IN  IF Failing(w1) THEN Ret(w1, Errorf("query table names", EmptyName, DbError))
        ELSE IF ~w1.tbl THEN Ret(w1, Nil)
        ELSE LET w2 == Send(w1)
             IN  IF Failing(w2) THEN Ret(w2, Errorf("drop tables", EmptyName, DbError))
                 ELSE Ret([w2 EXCEPT !.tbl = FALSE, !.rows = {}], Nil)

\* a session of the MySQL driver: the session variable FOREIGN_KEY_CHECKS
\* comes with it
MySqlSession(t, rs, c, failAt, fk) ==
    [tbl |-> t, rows |-> rs, clock |-> c, n |-> 0, failAt |-> failAt, tr |-> <<>>,
     foreignKeyChecks |-> fk]

\* MySqlDriver.CleanDatabase: the checks are switched off, the tables of the
\* schema are queried and, when there are any, dropped in one statement, and
\* the checks are switched on again; every other return leaves them as they are
MySqlCleanDatabase(w0) ==
    LET w1 == Send(Log(w0, Call("CleanDatabase")))
    IN  IF Failing(w1)
        THEN Ret(w1, Errorf("failed to disable FK checks", EmptyName, DbError))
        ELSE LET w2 == Send(Log([w1 EXCEPT !.foreignKeyChecks = FALSE],
                                Stmt("SET FOREIGN_KEY_CHECKS = 0", EmptyName)))
             IN  IF Failing(w2)
                 THEN Ret(w2, Errorf("failed to query tables", EmptyName, DbError))
                 ELSE IF ~w2.tbl THEN Ret(w2, Nil)
                 ELSE LET w3 == Send(w2)
                      IN  IF Failing(w3)
                          THEN Ret(w3, Errorf("failed to drop tables", EmptyName, DbError))
                          ELSE LET w4 == Send(Log([w3 EXCEPT !.tbl = FALSE, !.rows = {}],
                                                  Stmt("DROP TABLE", EmptyName)))
                               IN  IF Failing(w4)
                                   THEN Ret(w4, Errorf("failed to re-enable FK checks",
                                                       EmptyName, DbError))
                                   ELSE Ret(Log([w4 EXCEPT !.foreignKeyChecks = TRUE],
                                                Stmt("SET FOREIGN_KEY_CHECKS = 1", EmptyName)),
                                            Nil)

\* mutant: an empty script is sent like any other
executeMigrationSQL_SendsEmpty(w0, sql, k, name) ==
    LET w == Send(w0)
    IN  IF Failing(w) THEN Ret(w, DbError)
        ELSE Ret(Log(w, Stmt(k, name)), Nil)

\* an empty script sends nothing
executeMigrationSQL(w0, sql, k, name) ==
    IF sql = "" THEN Ret(w0, Nil)
    ELSE LET w == Send(w0)
         IN  IF Failing(w) THEN Ret(w, DbError)
             ELSE Ret(Log(w, Stmt(k, name)), Nil)

\* mutant: a second insert of the same name is accepted (upsert)
insertExecutedMigration_Upsert(w0, name) ==
    LET w == Send(w0)
    IN  IF Failing(w) \/ ~w.tbl THEN Ret(w, DbError)
        ELSE Ret(Log([w EXCEPT !.rows = { r \in @ : r.name # name }
                                           \cup {ExecutedMigration(name, w.clock + 1)},
                               !.clock = @ + 1],
                     Stmt("insert", name)), Nil)

\* INSERT INTO table (name, executed_at): name is the primary key, and
\* executed_at is time.Now(), later than every timestamp handed out before
insertExecutedMigration(w0, name) ==
    LET w == Send(w0)
    IN  IF Failing(w) \/ ~w.tbl \/ (\E r \in w.rows : r.name = name)
        THEN Ret(w, DbError)
        ELSE Ret(Log([w EXCEPT !.rows = @ \cup {ExecutedMigration(name, w.clock + 1)},
                               !.clock = @ + 1],
                     Stmt("insert", name)), Nil)

\* DELETE FROM table WHERE name = $1
removeExecutedMigration(w0, name) ==
    LET w == Send(w0)
    IN  IF Failing(w) \/ ~w.tbl THEN Ret(w, DbError)
        ELSE Ret(Log([w EXCEPT !.rows = { r \in @ : r.name # name }],
                     Stmt("delete", name)), Nil)

\* mutant: the script runs but the migration is not recorded
RECURSIVE ApplyFrom_SkipsRecord(_, _, _)
ApplyFrom_SkipsRecord(w0, ms, i) ==
    IF i > Len(ms) THEN Ret(w0, Nil)
    ELSE LET m  == ms[i]
             r1 == executeMigrationSQL(Log(w0, Hook("onRunning", m.name)), m.up, "up", m.name)
         IN  IF r1.err # Nil
             THEN Ret(Log(r1.w, Hook("onFailed", m.name)),
                      Errorf("failed to apply migration", m.name, r1.err))
             ELSE ApplyFrom_SkipsRecord(Log(r1.w, Hook("onSuccess", m.name)), ms, i + 1)

\* mutant: a failed migration is reported and the loop goes on
RECURSIVE ApplyFrom_GoesOn(_, _, _)
ApplyFrom_GoesOn(w0, ms, i) ==
    IF i > Len(ms) THEN Ret(w0, Nil)
    ELSE LET m  == ms[i]
             r1 == executeMigrationSQL(Log(w0, Hook("onRunning", m.name)), m.up, "up", m.name)
             r2 == insertExecutedMigration(r1.w, m.name)
             f1 == ApplyFrom_GoesOn(Log(r1.w, Hook("onFailed", m.name)), ms, i + 1)
             f2 == ApplyFrom_GoesOn(Log(r2.w, Hook("onFailed", m.name)), ms, i + 1)
         IN  IF r1.err # Nil
             THEN Ret(f1.w, Errorf("failed to apply migration", m.name, r1.err))
             ELSE IF r2.err # Nil
             THEN Ret(f2.w, Errorf("failed to record migration", m.name, r2.err))
             ELSE ApplyFrom_GoesOn(Log(r2.w, Hook("onSuccess", m.name)), ms, i + 1)

\* mutant: onSuccess is reported once the script has run, before the insert
RECURSIVE ApplyFrom_EarlySuccess(_, _, _)
ApplyFrom_EarlySuccess(w0, ms, i) ==
    IF i > Len(ms) THEN Ret(w0, Nil)
    ELSE LET m  == ms[i]
             r1 == executeMigrationSQL(Log(w0, Hook("onRunning", m.name)), m.up, "up", m.name)
             r2 == insertExecutedMigration(Log(r1.w, Hook("onSuccess", m.name)), m.name)
         IN  IF r1.err # Nil
             THEN Ret(Log(r1.w, Hook("onFailed", m.name)),
                      Errorf("failed to apply migration", m.name, r1.err))
             ELSE IF r2.err # Nil
             THEN Ret(Log(r2.w, Hook("onFailed", m.name)),
                      Errorf("failed to record migration", m.name, r2.err))
             ELSE ApplyFrom_EarlySuccess(r2.w, ms, i + 1)

\* mutant: the error names the first migration of the batch
RECURSIVE ApplyFrom_NamesFirst(_, _, _)
ApplyFrom_NamesFirst(w0, ms, i) ==
    IF i > Len(ms) THEN Ret(w0, Nil)
    ELSE LET m  == ms[i]
             r1 == executeMigrationSQL(Log(w0, Hook("onRunning", m.name)), m.up, "up", m.name)
             r2 == insertExecutedMigration(r1.w, m.name)
         IN  IF r1.err # Nil
             THEN Ret(Log(r1.w, Hook("onFailed", m.name)),
                      Errorf("failed to apply migration", ms[1].name, r1.err))
             ELSE IF r2.err # Nil
             THEN Ret(Log(r2.w, Hook("onFailed", m.name)),
                      Errorf("failed to record migration", ms[1].name, r2.err))
             ELSE ApplyFrom_NamesFirst(Log(r2.w, Hook("onSuccess", m.name)), ms, i + 1)

\* mutant: when the insert fails the reverse script undoes the forward script
RECURSIVE ApplyFrom_UndoesScript(_, _, _)
ApplyFrom_UndoesScript(w0, ms, i) ==
    IF i > Len(ms) THEN Ret(w0, Nil)
    ELSE LET m  == ms[i]
             r1 == executeMigrationSQL(Log(w0, Hook("onRunning", m.name)), m.up, "up", m.name)
             r2 == insertExecutedMigration(r1.w, m.name)
             r3 == executeMigrationSQL(r2.w, m.down, "down", m.name)
         IN  IF r1.err # Nil
             THEN Ret(Log(r1.w, Hook("onFailed", m.name)),
                      Errorf("failed to apply migration", m.name, r1.err))
             ELSE IF r2.err # Nil
             THEN Ret(Log(r3.w, Hook("onFailed", m.name)),
                      Errorf("failed to record migration", m.name, r2.err))
             ELSE ApplyFrom_UndoesScript(Log(r2.w, Hook("onSuccess", m.name)), ms, i + 1)

\* the loop of ApplyMigrations from its i-th migration on
RECURSIVE ApplyFrom(_, _, _)
ApplyFrom(w0, ms, i) ==
    IF i > Len(ms) THEN Ret(w0, Nil)
    ELSE LET m  == ms[i]
             r1 == executeMigrationSQL(Log(w0, Hook("onRunning", m.name)), m.up, "up", m.name)
             r2 == insertExecutedMigration(r1.w, m.name)
         IN  IF r1.err # Nil
             THEN Ret(Log(r1.w, Hook("onFailed", m.name)),
                      Errorf("failed to apply migration", m.name, r1.err))
             ELSE IF r2.err # Nil
             THEN Ret(Log(r2.w, Hook("onFailed", m.name)),
                      Errorf("failed to record migration", m.name, r2.err))
             ELSE ApplyFrom(Log(r2.w, Hook("onSuccess", m.name)), ms, i + 1)

ApplyMigrations(w0, ms) == ApplyFrom(Log(w0, CallList("ApplyMigrations", ms)), ms, 1)

\* mutant: after a failure the loop goes on with the next migration
RECURSIVE UnapplyFrom_GoesOn(_, _, _)
UnapplyFrom_GoesOn(w0, ms, i) ==
    IF i > Len(ms) THEN Ret(w0, Nil)
    ELSE LET m  == ms[i]
             r1 == executeMigrationSQL(Log(w0, Hook("onRunning", m.name)), m.down, "down", m.name)
             r2 == removeExecutedMigration(r1.w, m.name)
         IN  IF r1.err # Nil
             THEN Ret(UnapplyFrom_GoesOn(Log(r1.w, Hook("onFailed", m.name)), ms, i + 1).w,
                      Errorf("failed to unapply migration", m.name, r1.err))
             ELSE IF r2.err # Nil
             THEN Ret(UnapplyFrom_GoesOn(Log(r2.w, Hook("onFailed", m.name)), ms, i + 1).w,
                      Errorf("failed to remove migration record", m.name, r2.err))
             ELSE UnapplyFrom_GoesOn(Log(r2.w, Hook("onSuccess", m.name)), ms, i + 1)

\* mutant: the reverse script runs and the bookkeeping row stays
RECURSIVE UnapplyFrom_KeepsRecord(_, _, _)
UnapplyFrom_KeepsRecord(w0, ms, i) ==
    IF i > Len(ms) THEN Ret(w0, Nil)
    ELSE LET m  == ms[i]
             r1 == executeMigrationSQL(Log(w0, Hook("onRunning", m.name)), m.down, "down", m.name)
         IN  IF r1.err # Nil
             THEN Ret(Log(r1.w, Hook("onFailed", m.name)),
                      Errorf("failed to unapply migration", m.name, r1.err))
             ELSE UnapplyFrom_KeepsRecord(Log(r1.w, Hook("onSuccess", m.name)), ms, i + 1)

\* the loop of UnapplyMigrations from its i-th migration on
RECURSIVE UnapplyFrom(_, _, _)
UnapplyFrom(w0, ms, i) ==
    IF i > Len(ms) THEN Ret(w0, Nil)
    ELSE LET m  == ms[i]
             r1 == executeMigrationSQL(Log(w0, Hook("onRunning", m.name)), m.down, "down", m.name)
             r2 == removeExecutedMigration(r1.w, m.name)
         IN  IF r1.err # Nil
             THEN Ret(Log(r1.w, Hook("onFailed", m.name)),
                      Errorf("failed to unapply migration", m.name, r1.err))
             ELSE IF r2.err # Nil
             THEN Ret(Log(r2.w, Hook("onFailed", m.name)),
                      Errorf("failed to remove migration record", m.name, r2.err))
             ELSE UnapplyFrom(Log(r2.w, Hook("onSuccess", m.name)), ms, i + 1)

UnapplyMigrations(w0, ms) == UnapplyFrom(Log(w0, CallList("UnapplyMigrations", ms)), ms, 1)

----------------------------------------------------------------------------
\* qafoia.go

\* type Config struct, behind the pointer the caller passes
Config(driver, dir, table, debugSql) ==
    << [Driver |-> driver, MigrationFilesDir |-> dir,
        MigrationTableName |-> table, DebugSql |-> debugSql] >>
NilConfig == <<>>

\* type Qafoia struct (its migrations map is the variable migrations)
Qafoia(c) ==
    << [driver |-> c.Driver, migrationFilesDir |-> c.MigrationFilesDir,
        debugSql |-> c.DebugSql] >>
NilQafoia == <<>>

\* what New returns and leaves behind: the *Qafoia, the error, the caller's
\* Config, the driver calls made and the driver's table name
NewRet(qq, e, cfg, tr, table) ==
    [q |-> qq, err |-> e, config |-> cfg, tr |-> tr, table |-> table]

\* the defaults New writes into the caller's Config
WithDefaults(c0) ==
    LET c1 == IF c0.MigrationFilesDir = ""
              THEN [c0 EXCEPT !.MigrationFilesDir = "migrations"] ELSE c0
    IN  IF c1.MigrationTableName = <<>>
        THEN [c1 EXCEPT !.MigrationTableName = DefaultTableName] ELSE c1

\* mutant: the driver is configured before the configuration is validated
New_ConfiguresFirst(cfg, files, table) ==
    IF cfg = NilConfig THEN NewRet(NilQafoia, ErrConfigNotProvided, cfg, <<>>, table)
    ELSE IF cfg[1].Driver = "nil"
    THEN NewRet(NilQafoia, ErrDriverNotProvided, cfg, <<>>, table)
    ELSE LET c == WithDefaults(cfg[1])
             r == sanitizeTableName(c.MigrationTableName)
             set == << Ev("SetMigrationTableName", c.MigrationTableName, <<>>, FALSE) >>
         IN  IF r.err # Nil
             THEN NewRet(NilQafoia, Errorf("invalid migration table name", EmptyName, r.err),
                         <<c>>, set, c.MigrationTableName)
             ELSE IF ~migrationDirExists(files, c.MigrationFilesDir)
             THEN NewRet(NilQafoia, NewError("migration directory does not exist"),
                         <<c>>, set, c.MigrationTableName)
             ELSE NewRet(Qafoia(c), Nil, <<c>>, set, c.MigrationTableName)

New(cfg, files, table) ==
    IF cfg = NilConfig THEN NewRet(NilQafoia, ErrConfigNotProvided, cfg, <<>>, table)
    ELSE IF cfg[1].Driver = "nil"
    THEN NewRet(NilQafoia, ErrDriverNotProvided, cfg, <<>>, table)
    ELSE LET c == WithDefaults(cfg[1])
             r == sanitizeTableName(c.MigrationTableName)
         IN  IF r.err # Nil
             THEN NewRet(NilQafoia, Errorf("invalid migration table name", EmptyName, r.err),
                         <<c>>, <<>>, table)
             ELSE IF ~migrationDirExists(files, c.MigrationFilesDir)
             THEN NewRet(NilQafoia, NewError("migration directory does not exist"),
                         <<c>>, <<>>, table)
             ELSE NewRet(Qafoia(c), Nil, <<c>>,
                         << Ev("SetMigrationTableName", c.MigrationTableName, <<>>, FALSE) >>,
                         c.MigrationTableName)

\* mutant: a duplicate is reported but replaces the first registration
RECURSIVE Register_Overwrites(_, _)
Register_Overwrites(reg, args) ==
    IF args = <<>> THEN [reg |-> reg, err |-> Nil]
    ELSE LET migration == Head(args)
             name == migration.name
             put == [k \in DOMAIN reg \cup {name} |-> IF k = name THEN migration ELSE reg[k]]
         IN  IF name = EmptyName THEN [reg |-> reg, err |-> ErrMigrationNameNotProvided]
             ELSE IF name \in DOMAIN reg
             THEN [reg |-> put,
                   err |-> Errorf("migration registered more than once", name, Nil)]
             ELSE Register_Overwrites(put, Tail(args))

\* mutant: the arguments are validated first and inserted all or none
Register_AllOrNothing(reg, args) ==
    LET bad == { i \in DOMAIN args :
                    \/ args[i].name = EmptyName
                    \/ args[i].name \in DOMAIN reg
                    \/ \E j \in 1..(i - 1) : args[j].name = args[i].name }
        i == CHOOSE x \in bad : \A y \in bad : x <= y
        names == { args[j].name : j \in DOMAIN args }
    IN  IF bad = {}
        THEN [reg |-> [k \in DOMAIN reg \cup names |->
                          IF k \in DOMAIN reg THEN reg[k]
                          ELSE args[CHOOSE j \in DOMAIN args : args[j].name = k]],
              err |-> Nil]
        ELSE IF args[i].name = EmptyName
        THEN [reg |-> reg, err |-> ErrMigrationNameNotProvided]
        ELSE [reg |-> reg,
              err |-> Errorf("migration registered more than once", args[i].name, Nil)]

\* mutant: the name is not checked for being empty
RECURSIVE Register_AcceptsEmpty(_, _)
Register_AcceptsEmpty(reg, args) ==
    IF args = <<>> THEN [reg |-> reg, err |-> Nil]
    ELSE LET migration == Head(args)
             name == migration.name
         IN  IF name \in DOMAIN reg
             THEN [reg |-> reg,
                   err |-> Errorf("migration registered more than once", name, Nil)]
             ELSE Register_AcceptsEmpty([k \in DOMAIN reg \cup {name} |->
                                            IF k = name THEN migration ELSE reg[k]],
                                        Tail(args))

\* Register: the arguments in order, stopping at the first one refused
RECURSIVE Register(_, _)
Register(reg, args) ==
    IF args = <<>> THEN [reg |-> reg, err |-> Nil]
    ELSE LET migration == Head(args)
             name == migration.name
         IN  IF name = EmptyName THEN [reg |-> reg, err |-> ErrMigrationNameNotProvided]
             ELSE IF name \in DOMAIN reg
             THEN [reg |-> reg,
                   err |-> Errorf("migration registered more than once", name, Nil)]
             ELSE Register([k \in DOMAIN reg \cup {name} |->
                               IF k = name THEN migration ELSE reg[k]],
                           Tail(args))

\* names of a list of executed migrations, as a set
NameSet(ems) == { ems[i].name : i \in DOMAIN ems }

\* mutant: executed migrations are not filtered out
PendingOf_NoFilter(reg, executedMap) ==
    LET sorted == getSortedMigrationName(reg)
    IN  [i \in DOMAIN sorted |-> reg[sorted[i]]]

\* mutant: when something is pending the whole batch is handed over again
PendingOf_RestartsBatch(reg, executedMap) ==
    LET sorted == getSortedMigrationName(reg)
        all == [i \in DOMAIN sorted |-> reg[sorted[i]]]
    IN  IF \A i \in DOMAIN all : all[i].name \in executedMap THEN <<>> ELSE all

\* the registered migrations, in sorted-name order, that have no row
PendingOf(reg, executedMap) ==
    LET sorted == getSortedMigrationName(reg)
        all == [i \in DOMAIN sorted |-> reg[sorted[i]]]
        NotFound(m) == m.name \notin executedMap
    IN  SelectSeq(all, NotFound)

\* mutant: a failed query counts as "nothing executed yet"
Migrate_IgnoresQueryError(w0, reg) ==
    LET r1 == CreateMigrationsTable(w0)
        r2 == GetExecutedMigrations(r1.w, FALSE)
        migrationsToApply == PendingOf(reg, NameSet(r2.val))
    IN  IF r1.err # Nil THEN Ret(r1.w, r1.err)
        ELSE IF Len(migrationsToApply) = 0 THEN Ret(r2.w, Nil)
        ELSE ApplyMigrations(r2.w, migrationsToApply)

\* mutant: ApplyMigrations is called with whatever is pending, even nothing
Migrate_AppliesAlways(w0, reg) ==
    LET r1 == CreateMigrationsTable(w0)
        r2 == GetExecutedMigrations(r1.w, FALSE)
        migrationsToApply == PendingOf(reg, NameSet(r2.val))
    IN  IF r1.err # Nil THEN Ret(r1.w, r1.err)
        ELSE IF r2.err # Nil THEN Ret(r2.w, r2.err)
        ELSE ApplyMigrations(r2.w, migrationsToApply)

Migrate(w0, reg) ==
    LET r1 == CreateMigrationsTable(w0)
        r2 == GetExecutedMigrations(r1.w, FALSE)
        migrationsToApply == PendingOf(reg, NameSet(r2.val))
    IN  IF r1.err # Nil THEN Ret(r1.w, r1.err)
        ELSE IF r2.err # Nil THEN Ret(r2.w, r2.err)
        ELSE IF Len(migrationsToApply) = 0 THEN Ret(r2.w, Nil)
        ELSE ApplyMigrations(r2.w, migrationsToApply)

\* mutant: an unregistered name does not use up a step
ToRollback_SkipsForFree(reg, executedMigrations, step) ==
    LET Found(em) == em.name \in DOMAIN reg
        found == SelectSeq(executedMigrations, Found)
        n == IF step > Len(found) THEN Len(found) ELSE step
    IN  [i \in 1..n |-> reg[found[i].name]]

\* the first `step` executed migrations that are registered, in that order
ToRollback(reg, executedMigrations, step) ==
    LET Found(em) == em.name \in DOMAIN reg
        found == SelectSeq(SubSeq(executedMigrations, 1, step), Found)
    IN  [i \in DOMAIN found |-> reg[found[i].name]]

\* mutant: a step larger than the number of executed migrations is refused
Rollback_RefusesLargeStep(w0, reg, step0) ==
    IF step0 <= 0 THEN Ret(w0, ErrInvalidRollbackStep)
    ELSE LET r1 == GetExecutedMigrations(w0, TRUE)
             migrationsToRollback == ToRollback(reg, r1.val, step0)
         IN  IF r1.err # Nil THEN Ret(r1.w, r1.err)
             ELSE IF Len(r1.val) = 0 THEN Ret(r1.w, Nil)
             ELSE IF step0 > Len(r1.val) THEN Ret(r1.w, ErrInvalidRollbackStep)
             ELSE IF Len(migrationsToRollback) = 0 THEN Ret(r1.w, Nil)
             ELSE UnapplyMigrations(r1.w, migrationsToRollback)

\* mutant: the step is checked with < instead of <=
Rollback_AllowsZero(w0, reg, step0) ==
    IF step0 < 0 THEN Ret(w0, ErrInvalidRollbackStep)
    ELSE LET r1 == GetExecutedMigrations(w0, TRUE)
             step == IF step0 > Len(r1.val) THEN Len(r1.val) ELSE step0
             migrationsToRollback == ToRollback(reg, r1.val, step)
         IN  IF r1.err # Nil THEN Ret(r1.w, r1.err)
             ELSE IF Len(r1.val) = 0 THEN Ret(r1.w, Nil)
             ELSE IF Len(migrationsToRollback) = 0 THEN Ret(r1.w, Nil)
             ELSE UnapplyMigrations(r1.w, migrationsToRollback)

Rollback(w0, reg, step0) ==
    IF step0 <= 0 THEN Ret(w0, ErrInvalidRollbackStep)
    ELSE LET r1 == GetExecutedMigrations(w0, TRUE)
             step == IF step0 > Len(r1.val) THEN Len(r1.val) ELSE step0
             migrationsToRollback == ToRollback(reg, r1.val, step)
         IN  IF r1.err # Nil THEN Ret(r1.w, r1.err)
             ELSE IF Len(r1.val) = 0 THEN Ret(r1.w, Nil)
             ELSE IF Len(migrationsToRollback) = 0 THEN Ret(r1.w, Nil)
             ELSE UnapplyMigrations(r1.w, migrationsToRollback)

\* mutant: the database is not cleaned before migrating
Fresh_SkipsClean(w0, reg) ==
    LET r2 == Migrate(w0, reg)
    IN  IF r2.err # Nil
        THEN Ret(r2.w, Errorf("failed to run migrations after cleaning", EmptyName, r2.err))
        ELSE Ret(r2.w, Nil)

\* mutant: Migrate runs although cleaning failed
Fresh_GoesOn(w0, reg) ==
    LET r1 == CleanDatabase(w0)
        r2 == Migrate(r1.w, reg)
    IN  IF r1.err # Nil THEN Ret(r2.w, Errorf("failed to clean database", EmptyName, r1.err))
        ELSE IF r2.err # Nil
        THEN Ret(r2.w, Errorf("failed to run migrations after cleaning", EmptyName, r2.err))
        ELSE Ret(r2.w, Nil)

Fresh(w0, reg) ==
    LET r1 == CleanDatabase(w0)
        r2 == Migrate(r1.w, reg)
    IN  IF r1.err # Nil THEN Ret(r1.w, Errorf("failed to clean database", EmptyName, r1.err))
        ELSE IF r2.err # Nil
        THEN Ret(r2.w, Errorf("failed to run migrations after cleaning", EmptyName, r2.err))
        ELSE Ret(r2.w, Nil)

\* mutant: no early return when nothing is executed
Reset_NoEmptyCheck(w0, reg) ==
    LET r1 == GetExecutedMigrations(w0, TRUE)
        r2 == Rollback(r1.w, reg, Len(r1.val))
        r3 == Migrate(r2.w, reg)
    IN  IF r1.err # Nil
        THEN Ret(r1.w, Errorf("failed to get executed migrations", EmptyName, r1.err))
        ELSE IF r2.err # Nil
        THEN Ret(r2.w, Errorf("rollback failed during reset", EmptyName, r2.err))
        ELSE IF r3.err # Nil
        THEN Ret(r3.w, Errorf("migration failed during reset", EmptyName, r3.err))
        ELSE Ret(r3.w, Nil)

\* mutant: with nothing executed the rollback is skipped and Migrate still runs
Reset_MigratesWhenEmpty(w0, reg) ==
    LET r1 == GetExecutedMigrations(w0, TRUE)
        r2 == IF Len(r1.val) = 0 THEN Ret(r1.w, Nil) ELSE Rollback(r1.w, reg, Len(r1.val))
        r3 == Migrate(r2.w, reg)
    IN  IF r1.err # Nil
        THEN Ret(r1.w, Errorf("failed to get executed migrations", EmptyName, r1.err))
        ELSE IF r2.err # Nil
        THEN Ret(r2.w, Errorf("rollback failed during reset", EmptyName, r2.err))
        ELSE IF r3.err # Nil
        THEN Ret(r3.w, Errorf("migration failed during reset", EmptyName, r3.err))
        ELSE Ret(r3.w, Nil)

\* mutant: only the last executed migration is rolled back
Reset_RollsBackOne(w0, reg) ==
    LET r1 == GetExecutedMigrations(w0, TRUE)
        r2 == Rollback(r1.w, reg, 1)
        r3 == Migrate(r2.w, reg)
    IN  IF r1.err # Nil
        THEN Ret(r1.w, Errorf("failed to get executed migrations", EmptyName, r1.err))
        ELSE IF Len(r1.val) = 0 THEN Ret(r1.w, Nil)
        ELSE IF r2.err # Nil
        THEN Ret(r2.w, Errorf("rollback failed during reset", EmptyName, r2.err))
        ELSE IF r3.err # Nil
        THEN Ret(r3.w, Errorf("migration failed during reset", EmptyName, r3.err))
        ELSE Ret(r3.w, Nil)

\* mutant: Migrate runs although the rollback failed
Reset_MigratesAnyway(w0, reg) ==
    LET r1 == GetExecutedMigrations(w0, TRUE)
        r2 == Rollback(r1.w, reg, Len(r1.val))
        r3 == Migrate(r2.w, reg)
    IN  IF r1.err # Nil
        THEN Ret(r1.w, Errorf("failed to get executed migrations", EmptyName, r1.err))
        ELSE IF Len(r1.val) = 0 THEN Ret(r1.w, Nil)
        ELSE IF r2.err # Nil
        THEN Ret(r3.w, Errorf("rollback failed during reset", EmptyName, r2.err))
        ELSE IF r3.err # Nil
        THEN Ret(r3.w, Errorf("migration failed during reset", EmptyName, r3.err))
        ELSE Ret(r3.w, Nil)

Reset(w0, reg) ==
    LET r1 == GetExecutedMigrations(w0, TRUE)
        r2 == Rollback(r1.w, reg, Len(r1.val))
        r3 == Migrate(r2.w, reg)
    IN  IF r1.err # Nil
        THEN Ret(r1.w, Errorf("failed to get executed migrations", EmptyName, r1.err))
        ELSE IF Len(r1.val) = 0 THEN Ret(r1.w, Nil)
        ELSE IF r2.err # Nil
        THEN Ret(r2.w, Errorf("rollback failed during reset", EmptyName, r2.err))
        ELSE IF r3.err # Nil
        THEN Ret(r3.w, Errorf("migration failed during reset", EmptyName, r3.err))
        ELSE Ret(r3.w, Nil)

\* mutant: the driver's error is returned as it is
Clean_NoWrap(w0) ==
    LET r1 == CleanDatabase(w0)
    IN  Ret(r1.w, r1.err)

Clean(w0) ==
    LET r1 == CleanDatabase(w0)
    IN  IF r1.err # Nil THEN Ret(r1.w, Errorf("failed to clean database", EmptyName, r1.err))
        ELSE Ret(r1.w, Nil)

\* Create: the file dir/<now>_<name>.go is written; generating the template
\* or writing the file may fail (fail is "template", "write" or "none")
Create(fileName, dir, files, now, fail) ==
    LET r == sanitizeMigrationName(fileName)
        migrationFileName == <<dir, now, r.val>>
    IN  IF fileName = <<>> THEN [fs |-> files, err |-> ErrMigrationNameNotProvided]
        ELSE IF r.err # Nil THEN [fs |-> files, err |-> r.err]
        ELSE IF fileExists(files, migrationFileName)
        THEN [fs |-> files, err |-> ErrMigrationFileAlreadyExists]
        ELSE IF fail = "template" THEN [fs |-> files, err |-> NewError("template error")]
        ELSE IF fail = "write" THEN [fs |-> files, err |-> NewError("write error")]
        ELSE [fs |-> files \cup {migrationFileName}, err |-> Nil]

\* type RegisteredMigration struct; ExecutedAt is 0 for a nil pointer
RegisteredMigration(m, executed, at) ==
    [name |-> m.name, upScript |-> m.up, downScript |-> m.down,
     isExecuted |-> executed, executedAt |-> at]

\* mutant: every executed entry points to the timestamp of the row read last
List_SharedTimestamp(w0, reg) ==
    LET r1 == CreateMigrationsTable(w0)
        r2 == GetExecutedMigrations(r1.w, FALSE)
        sorted == getSortedMigrationName(reg)
        ExecutedAt(name) ==
            IF name \notin NameSet(r2.val) THEN 0
            ELSE r2.val[Len(r2.val)].executedAt
        registeredMigrations ==
            [i \in DOMAIN sorted |->
                RegisteredMigration(reg[sorted[i]],
                                    sorted[i] \in NameSet(r2.val),
                                    ExecutedAt(sorted[i]))]
    IN  IF r1.err # Nil THEN RetVal(r1.w, r1.err, <<>>)
        ELSE IF r2.err # Nil THEN RetVal(r2.w, r2.err, <<>>)
        ELSE RetVal(r2.w, Nil, registeredMigrations)

List(w0, reg) ==
    LET r1 == CreateMigrationsTable(w0)
        r2 == GetExecutedMigrations(r1.w, FALSE)
        sorted == getSortedMigrationName(reg)
        ExecutedAt(name) ==
            LET hits == { i \in DOMAIN r2.val : r2.val[i].name = name }
            IN  IF hits = {} THEN 0
                ELSE r2.val[CHOOSE i \in hits : \A j \in hits : j <= i].executedAt
        registeredMigrations ==
            [i \in DOMAIN sorted |->
                RegisteredMigration(reg[sorted[i]],
                                    sorted[i] \in NameSet(r2.val),
                                    ExecutedAt(sorted[i]))]
    IN  IF r1.err # Nil THEN RetVal(r1.w, r1.err, <<>>)
        ELSE IF r2.err # Nil THEN RetVal(r2.w, r2.err, <<>>)
        ELSE RetVal(r2.w, Nil, registeredMigrations)

----------------------------------------------------------------------------
\* The state machine

\* bookkeeping sets a database may hold before the engine is constructed:
\* rows for any names, executed in any order
Stamped(S) ==
    { { ExecutedMigration(a, f[a]) : a \in S } :
        f \in { g \in [S -> 1..Cardinality(S)] : \A a, b \in S : a # b => g[a] # g[b] } }

InitialRows == UNION { Stamped(S) : S \in SUBSET Names }

\* the state a call starts from, and the call before it: its kind, the error
\* it returned and whether that was nil, the rows it started from and the
\* migrations it reported with onSuccess
Snapshot ==
    [migrations |-> migrations, tbl |-> tbl, rows |-> rows,
     op |-> op.k, ok |-> err = Nil, err |-> err, config |-> config,
     rows0 |-> pre.rows, foreignKeyChecks |-> foreignKeyChecks,
     succeeded |-> { trace[i].n : i \in { j \in DOMAIN trace : trace[j].k = "onSuccess" } }]
NoSnapshot ==
    [migrations |-> <<>>, tbl |-> FALSE, rows |-> {}, op |-> "None", ok |-> TRUE,
     err |-> Nil, config |-> NilConfig, rows0 |-> {}, foreignKeyChecks |-> TRUE,
     succeeded |-> {}]

\* a call: its kind, Rollback's step, Register's arguments, and whether one of
\* the statements it sent was made to fail
Op(k, step, args, injected) ==
    [k |-> k, step |-> step, args |-> args, injected |-> injected]
NoOp == Op("None", 0, <<>>, FALSE)

\* the statement chosen to fail was sent
Injected(w) == w.failAt \in 1..w.n

\* no call is in progress and the result of the last one has been consumed
Idle == op = NoOp

\* the threads that call the engine
Threads == {1, 2}

\* a call of one thread: where it stands (pc), its arguments and the argument
\* it looks at (Register), what it read and selected (Migrate), the
\* statements it has sent and the one that is going to fail, its trace, the
\* error it returned, and what it started from
NoCall ==
    [pc |-> "idle", kind |-> "None", args |-> <<>>, i |-> 0,
     executed |-> {}, pending |-> <<>>, n |-> 0, failAt |-> 0, tr |-> <<>>,
     err |-> Nil, retry |-> FALSE, rows0 |-> {}, reg0 |-> <<>>]
NoCalls == [p \in Threads |-> NoCall]

\* the database and the observations before the first call
Start ==
    /\ migrations = <<>>
    /\ tbl \in BOOLEAN
    /\ rows \in (IF tbl THEN InitialRows ELSE {{}})
    /\ clock = Cardinality(rows)
    /\ op = NoOp
    /\ pre = NoSnapshot
    /\ trace = <<>>
    /\ err = Nil
    /\ out = <<>>

\* the Config of an engine that has been constructed
BuiltConfig == Config("driver", "migrations", DefaultTableName, FALSE)

\* the outcome of a command line: the command, whether an "Error ..." line
\* was logged, and the error Execute returned
Cli(cmd, logged, ret) == [cmd |-> cmd, logged |-> logged, ret |-> ret]
NoCli == Cli("none", FALSE, Nil)

\* New has returned an engine
Init ==
    /\ Start
    /\ cli = NoCli
    /\ mu = 0
    /\ calls = NoCalls
    /\ foreignKeyChecks = TRUE
    /\ config = BuiltConfig
    /\ q = Qafoia(BuiltConfig[1])
    /\ fs = { <<"migrations">> }
    /\ migrationTableName = DefaultTableName

ArgLists == UNION { [1..n -> Migrations] : n \in 0..MaxArgs }

\* what an operation that ran in session r.w leaves behind
Done(k, step, r, list) ==
    /\ r.w.clock <= MaxClock
    /\ tbl' = r.w.tbl
    /\ rows' = r.w.rows
    /\ clock' = r.w.clock
    /\ op' = Op(k, step, <<>>, Injected(r.w))
    /\ pre' = Snapshot
    /\ trace' = r.w.tr
    /\ err' = r.err
    /\ out' = list
    /\ UNCHANGED <<migrations, setup, foreignKeyChecks>>

RegisterWith(lists) ==
    \E args \in lists :
        LET r == Register(migrations, args)
        IN  /\ migrations' = r.reg
            /\ op' = Op("Register", 0, args, FALSE)
            /\ pre' = Snapshot
            /\ trace' = <<>>
            /\ err' = r.err
            /\ out' = <<>>
            /\ UNCHANGED <<tbl, rows, clock, setup, foreignKeyChecks>>

DoRegister == RegisterWith(ArgLists)

DoMigrate ==
    \E f \in 0..MaxFail :
        Done("Migrate", 0, Migrate(Session(tbl, rows, clock, f), migrations), <<>>)

RollbackWith(fails, steps) ==
    \E f \in fails, step \in steps :
        Done("Rollback", step, Rollback(Session(tbl, rows, clock, f), migrations, step), <<>>)

DoRollback == RollbackWith(0..MaxFail, -1..MaxStep)

DoReset ==
    \E f \in 0..MaxFail :
        Done("Reset", 0, Reset(Session(tbl, rows, clock, f), migrations), <<>>)

DoFresh ==
    \E f \in 0..MaxFail :
        Done("Fresh", 0, Fresh(Session(tbl, rows, clock, f), migrations), <<>>)

DoClean ==
    \E f \in 0..MaxFail :
        Done("Clean", 0, Clean(Session(tbl, rows, clock, f)), <<>>)

DoList ==
    \E f \in 0..MaxFail :
        LET r == List(Session(tbl, rows, clock, f), migrations)
        IN  Done("List", 0, r, r.val)

\* the caller has looked at the result; the engine keeps no trace of the call
Return ==
    /\ ~Idle \/ cli # NoCli
    /\ cli' = NoCli
    /\ op' = NoOp
    /\ pre' = NoSnapshot
    /\ trace' = <<>>
    /\ err' = Nil
    /\ out' = <<>>
    /\ UNCHANGED <<migrations, tbl, rows, clock, setup, foreignKeyChecks, threads>>

Register1 == Idle /\ DoRegister /\ UNCHANGED <<cli, threads>>
Migrate1  == Idle /\ DoMigrate /\ UNCHANGED <<cli, threads>>
Rollback1 == Idle /\ DoRollback /\ UNCHANGED <<cli, threads>>
Reset1    == Idle /\ DoReset /\ UNCHANGED <<cli, threads>>
Fresh1    == Idle /\ DoFresh /\ UNCHANGED <<cli, threads>>
Clean1    == Idle /\ DoClean /\ UNCHANGED <<cli, threads>>
List1     == Idle /\ DoList /\ UNCHANGED <<cli, threads>>

\* one call at a time, each observed on its own
Next ==
    \/ Register1
    \/ Migrate1
    \/ Rollback1
    \/ Reset1
    \/ Fresh1
    \/ Clean1
    \/ List1
    \/ Return

Spec == Init /\ [][Next]_vars

\* calls back to back: the registry is built first, then Migrate and
\* (healthy) Rollback calls follow one another with nothing in between
RegisterS == op.k \in {"None", "Register"} /\ RegisterWith([1..1 -> Migrations])
                                            /\ UNCHANGED <<cli, threads>>
MigrateS  == DoMigrate /\ UNCHANGED <<cli, threads>>
RollbackS == RollbackWith({0}, 1..MaxStep) /\ UNCHANGED <<cli, threads>>

NextSeq ==
    \/ RegisterS
    \/ MigrateS
    \/ RollbackS

SpecSeq == Init /\ [][NextSeq]_vars

----------------------------------------------------------------------------
\* Calls made from several threads, statement by statement

\* the session of thread p: the database as it is now, with the statements
\* and the trace of the thread's own call
SessionOf(p) ==
    [tbl |-> tbl, rows |-> rows, clock |-> clock,
     n |-> calls[p].n, failAt |-> calls[p].failAt, tr |-> calls[p].tr]

\* the threads whose calls run together with the one that begins
Batch == { o \in Threads : calls[o].pc # "idle" }
\* the threads of a batch all make the same call
SameBatch(kind) == \A o \in Batch : calls[o].kind = kind
\* the registry as it was when the first call of the batch began
BatchRegistry ==
    IF Batch = {} THEN migrations ELSE calls[CHOOSE o \in Batch : TRUE].reg0

observed == <<op, pre, trace, err, out>>
database == <<tbl, rows, clock>>

\* mutant: Lock does not wait
CanLock_NoMutex(m) == TRUE

\* q.mu.Lock() returns when nobody holds the mutex
CanLock(m) == m = 0

\* thread p is at pc and moves on as c says
At_(p, pc) == calls[p].pc = pc
Goto(p, c) == calls' = [calls EXCEPT ![p] = c]
\* the call of p returns e
Returns(c, e) == [c EXCEPT !.pc = "done", !.err = e]

RegisterBegin(p, args) ==
    /\ At_(p, "idle")
    /\ SameBatch("Register")
    /\ Goto(p, [NoCall EXCEPT !.pc = "lock", !.kind = "Register", !.args = args,
                              !.reg0 = BatchRegistry])
    /\ UNCHANGED <<migrations, database, observed, setup, foreignKeyChecks, cli, mu>>

RegisterLock(p) ==
    /\ At_(p, "lock")
    /\ CanLock(mu)
    /\ mu' = p
    /\ Goto(p, [calls[p] EXCEPT !.pc = "check", !.i = 1])
    /\ UNCHANGED <<migrations, database, observed, setup, foreignKeyChecks, cli>>

\* the head of the loop and its two checks; a return unlocks (defer)
RegisterCheck(p) ==
    LET c == calls[p]
        name == c.args[c.i].name
        Unlock(e) == Goto(p, Returns(c, e)) /\ mu' = 0
    IN  /\ At_(p, "check")
        /\ IF c.i > Len(c.args) THEN Unlock(Nil)
           ELSE IF name = EmptyName THEN Unlock(ErrMigrationNameNotProvided)
           ELSE IF name \in DOMAIN migrations
           THEN Unlock(Errorf("migration registered more than once", name, Nil))
           ELSE Goto(p, [c EXCEPT !.pc = "insert"]) /\ UNCHANGED mu
        /\ UNCHANGED <<migrations, database, observed, setup, foreignKeyChecks, cli>>

\* q.migrations[name] = migration
RegisterInsert(p) ==
    LET c == calls[p]
        migration == c.args[c.i]
    IN  /\ At_(p, "insert")
        /\ migrations' = [k \in DOMAIN migrations \cup {migration.name} |->
                             IF k = migration.name THEN migration ELSE migrations[k]]
        /\ Goto(p, [c EXCEPT !.pc = "check", !.i = @ + 1])
        /\ UNCHANGED <<database, observed, setup, foreignKeyChecks, cli, mu>>

\* what a statement of thread p leaves in the database and in its call
Sent(p, w, c) ==
    /\ w.clock <= MaxClock
    /\ tbl' = w.tbl
    /\ rows' = w.rows
    /\ clock' = w.clock
    /\ Goto(p, [c EXCEPT !.n = w.n])
    /\ UNCHANGED <<migrations, observed, setup, foreignKeyChecks, cli, mu>>

\* Migrate begins; the f-th statement it sends is going to fail
MigrateBegin(p, f) ==
    /\ At_(p, "idle")
    /\ SameBatch("Migrate")
    /\ Goto(p, [NoCall EXCEPT !.pc = "create", !.kind = "Migrate", !.failAt = f,
                              !.retry = (calls[p].kind = "Migrate" /\ calls[p].err # Nil),
                              !.rows0 = rows, !.reg0 = BatchRegistry])
    /\ UNCHANGED <<migrations, database, observed, setup, foreignKeyChecks, cli, mu>>

MigrateCreate(p) ==
    LET c == calls[p]
        r == CreateMigrationsTable(SessionOf(p))
    IN  /\ At_(p, "create")
        /\ Sent(p, r.w, IF r.err # Nil THEN [Returns(c, r.err) EXCEPT !.tr = r.w.tr]
                        ELSE [c EXCEPT !.pc = "get", !.tr = r.w.tr])

\* the query, and the selection of the migrations to apply from its result
MigrateGet(p) ==
    LET c == calls[p]
        r == GetExecutedMigrations(SessionOf(p), FALSE)
        migrationsToApply == PendingOf(migrations, NameSet(r.val))
        read == [c EXCEPT !.executed = NameSet(r.val), !.tr = r.w.tr]
    IN  /\ At_(p, "get")
        /\ Sent(p, r.w,
                IF r.err # Nil THEN [Returns(c, r.err) EXCEPT !.tr = r.w.tr]
                ELSE IF Len(migrationsToApply) = 0 THEN Returns(read, Nil)
                ELSE [read EXCEPT !.pc = "run", !.i = 1, !.pending = migrationsToApply,
                                  !.tr = Append(@, CallList("ApplyMigrations",
                                                            migrationsToApply))])

\* ApplyMigrations, one migration: onRunning and the forward script
ApplyRun(p) ==
    LET c == calls[p]
        m == c.pending[c.i]
        r == executeMigrationSQL(Log(SessionOf(p), Hook("onRunning", m.name)),
                                 m.up, "up", m.name)
    IN  /\ At_(p, "run")
        /\ Sent(p, r.w,
                IF r.err # Nil
                THEN [Returns(c, Errorf("failed to apply migration", m.name, r.err))
                         EXCEPT !.tr = Append(r.w.tr, Hook("onFailed", m.name))]
                ELSE [c EXCEPT !.pc = "record", !.tr = r.w.tr])

\* ApplyMigrations, one migration: the bookkeeping insert and onSuccess
ApplyRecord(p) ==
    LET c == calls[p]
        m == c.pending[c.i]
        r == insertExecutedMigration(SessionOf(p), m.name)
    IN  /\ At_(p, "record")
        /\ Sent(p, r.w,
                IF r.err # Nil
                THEN [Returns(c, Errorf("failed to record migration", m.name, r.err))
                         EXCEPT !.tr = Append(r.w.tr, Hook("onFailed", m.name))]
                ELSE IF c.i = Len(c.pending)
                THEN [Returns(c, Nil) EXCEPT !.tr = Append(r.w.tr, Hook("onSuccess", m.name))]
                ELSE [c EXCEPT !.pc = "run", !.i = @ + 1,
                               !.tr = Append(r.w.tr, Hook("onSuccess", m.name))])

\* the calls of the batch have returned and their callers have the results
Join ==
    /\ Batch # {}
    /\ \A o \in Batch : At_(o, "done")
    /\ calls' = [o \in Threads |->
                     [NoCall EXCEPT !.kind = calls[o].kind, !.err = calls[o].err]]
    /\ UNCHANGED <<migrations, database, observed, setup, foreignKeyChecks, cli, mu>>

\* a call that has begun runs on
Proceed(p) ==
    \/ RegisterLock(p)
    \/ RegisterCheck(p)
    \/ RegisterInsert(p)
    \/ MigrateCreate(p)
    \/ MigrateGet(p)
    \/ ApplyRun(p)
    \/ ApplyRecord(p)

\* one thread: the registry is built, then Migrate is called again and again
RegisterR == \E args \in [1..1 -> Migrations] :
                 calls[1].kind # "Migrate" /\ RegisterBegin(1, args)
Retry     == \E f \in 0..MaxFail : MigrateBegin(1, f)
ProceedR  == Proceed(1)

NextRetry ==
    \/ RegisterR
    \/ Retry
    \/ ProceedR
    \/ Join

\* a call that has begun runs to its end, its caller takes the result, and a
\* caller that needs Migrate to succeed calls it again
SpecRetry ==
    Init /\ [][NextRetry]_vars /\ WF_vars(ProceedR) /\ WF_vars(Join) /\ SF_vars(Retry)

\* two threads: the Register calls of the initialization threads run
\* together, and so do Migrate calls
ThreadMigrations ==
    { Mig(<<1>>, "CREATE a", "DROP a"), Mig(<<1>>, "", ""), Mig(<<2>>, "CREATE b", ""),
      Mig(EmptyName, "CREATE x", "DROP x") }
ThreadArgLists == UNION { [1..n -> ThreadMigrations] : n \in 0..MaxArgs }

\* the database is new, empty, or has the migration <<1>> executed
InitConc ==
    /\ Init
    /\ \A r \in rows : r.name = <<1>>

RegisterC == \E p \in Threads, args \in ThreadArgLists :
                 BatchRegistry = <<>> /\ RegisterBegin(p, args)
MigrateC  == \E p \in Threads : MigrateBegin(p, 0)
ProceedC  == \E p \in Threads : Proceed(p)

NextConc ==
    \/ RegisterC
    \/ MigrateC
    \/ ProceedC
    \/ Join

SpecConc == InitConc /\ [][NextConc]_vars

----------------------------------------------------------------------------
\* sanitizeMigrationName on its own

\* the characters of the names tried: A _ space - newline ! Kelvin-sign e-acute
NameChars == {65, 95, 32, 45, 10, 33, 8490, 233}
\* longest name tried, not counting a run of "a" in its middle
MaxName == 2
ShortNames == UNION { [1..n -> NameChars] : n \in 0..MaxName }
\* a run of k times "a"
Pad(k) == [i \in 1..k |-> 97]
\* the names tried: short ones, and ones that reach the length limit
InputNames ==
    { s \o Pad(k) \o t : s \in {<<>>, <<10>>},
                         k \in {0, NameLimit - 1},
                         t \in ShortNames }

\* the caller's name, before sanitizeMigrationName has seen it
Given(name) == Op("None", 0, <<name>>, FALSE)

InitSanitize ==
    /\ migrations = <<>>
    /\ tbl = FALSE
    /\ rows = {}
    /\ clock = 0
    /\ op \in { Given(name) : name \in InputNames }
    /\ pre = NoSnapshot
    /\ trace = <<>>
    /\ err = Nil
    /\ out = <<>>
    /\ config = BuiltConfig
    /\ q = Qafoia(BuiltConfig[1])
    /\ fs = { <<"migrations">> }
    /\ migrationTableName = DefaultTableName
    /\ cli = NoCli
    /\ mu = 0
    /\ calls = NoCalls
    /\ foreignKeyChecks = TRUE

Sanitize ==
    /\ op.k = "None"
    /\ op.args # <<>>
    /\ LET r == sanitizeMigrationName(op.args[1])
       IN  /\ op' = [op EXCEPT !.k = "sanitizeMigrationName"]
           /\ out' = r.val
           /\ err' = r.err
    /\ UNCHANGED <<migrations, database, pre, trace, setup, foreignKeyChecks, cli, threads>>

NextSanitize == Sanitize

SpecSanitize == InitSanitize /\ [][NextSanitize]_vars

\* the Configs a caller may pass to New
Configs ==
    { NilConfig } \cup
    UNION { UNION { { Config(d, dir, t, FALSE) : d \in {"nil", "driver"} } :
                      dir \in {"", "migrations", "db"} } :
              t \in TableNames }

\* before New: no engine, a driver as its constructor leaves it, a database
\* with at most one migration executed
InitNew ==
    /\ Start
    /\ Cardinality(rows) <= 1
    /\ config \in Configs
    /\ q = NilQafoia
    /\ fs \in { {}, { <<"migrations">>, <<"db">> } }
    /\ cli = NoCli
    /\ mu = 0
    /\ calls = NoCalls
    /\ foreignKeyChecks = TRUE
    /\ migrationTableName = DefaultTableName

DoNew ==
    LET r == New(config, fs, migrationTableName)
    IN  /\ config' = r.config
        /\ q' = r.q
        /\ migrationTableName' = r.table
        /\ op' = Op("New", 0, <<>>, FALSE)
        /\ pre' = Snapshot
        /\ trace' = r.tr
        /\ err' = r.err
        /\ out' = <<>>
        /\ UNCHANGED <<migrations, tbl, rows, clock, fs, foreignKeyChecks>>

\* New is called once; the methods need the engine it returned
NewN      == Idle /\ q = NilQafoia /\ DoNew /\ UNCHANGED <<cli, threads>>
RegisterN == q # NilQafoia /\ Register1
RollbackN == q # NilQafoia /\ Rollback1

NextNew ==
    \/ NewN
    \/ RegisterN
    \/ RollbackN
    \/ Return

SpecNew == InitNew /\ [][NextNew]_vars

\* file names given to the create command: "a b", "a!", ""
CliNames == { <<97, 32, 98>>, <<97, 33>>, <<>> }
\* migration files the model lets the create command write
MaxFiles == 1

DoCreate ==
    \E fileName \in CliNames, fail \in {"none", "template", "write"} :
        LET r == Create(fileName, q[1].migrationFilesDir, fs, clock, fail)
        IN  /\ Cardinality(r.fs) <= Cardinality(fs \cap { <<"migrations">>, <<"db">> }) + MaxFiles
            /\ fs' = r.fs
            /\ op' = Op("Create", 0, <<fileName>>, FALSE)
            /\ pre' = Snapshot
            /\ trace' = <<>>
            /\ err' = r.err
            /\ out' = <<>>
            /\ UNCHANGED <<migrations, tbl, rows, clock, config, q, migrationTableName,
                           foreignKeyChecks>>

\* Cli.Execute is called with no call in progress
Ready == Idle /\ cli = NoCli

\* a command whose Run function calls the engine: an error is logged and
\* the function returns; rootCmd.Execute has nothing to report
Ran(cmd) == cli' = Cli(cmd, err' # Nil, Nil) /\ UNCHANGED threads

CliList     == Ready /\ DoList /\ Ran("list")
CliMigrate  == Ready /\ DoMigrate /\ Ran("migrate")
CliFresh    == Ready /\ DoFresh /\ Ran("migrate --fresh")
CliRollback == Ready /\ RollbackWith(0..MaxFail, 1..MaxStep) /\ Ran("rollback")
CliReset    == Ready /\ DoReset /\ Ran("reset")
CliClean    == Ready /\ DoClean /\ Ran("clean")
CliCreate   == Ready /\ DoCreate /\ Ran("create")

\* rollback --step n with n < 1: a line is logged, the engine is not called
CliBadStep ==
    /\ Ready
    /\ cli' = Cli("rollback", TRUE, Nil)
    /\ UNCHANGED <<migrations, tbl, rows, clock, op, pre, trace, err, out, setup, foreignKeyChecks, threads>>

\* an unknown command, a wrong number of arguments or a flag that does not
\* parse: cobra reports it and no Run function is called
CliUsage ==
    /\ Ready
    /\ cli' = Cli("usage", FALSE, NewError("usage"))
    /\ UNCHANGED <<migrations, tbl, rows, clock, op, pre, trace, err, out, setup, foreignKeyChecks, threads>>

\* the registries the host has built at startup, before it runs the command
\* line: none, or the migrations <<1>> and <<2>>
Registries ==
    { Register(<<>>, args).reg :
        args \in { <<>>, << Mig(<<1>>, "CREATE a", "DROP a"), Mig(<<2>>, "CREATE b", "") >> } }

InitCli ==
    /\ migrations \in Registries
    /\ tbl \in BOOLEAN
    /\ rows \in (IF tbl THEN InitialRows ELSE {{}})
    /\ clock = Cardinality(rows)
    /\ op = NoOp
    /\ pre = NoSnapshot
    /\ trace = <<>>
    /\ err = Nil
    /\ out = <<>>
    /\ config = BuiltConfig
    /\ q = Qafoia(BuiltConfig[1])
    /\ fs = { <<"migrations">> }
    /\ migrationTableName = DefaultTableName
    /\ cli = NoCli
    /\ mu = 0
    /\ calls = NoCalls
    /\ foreignKeyChecks = TRUE

\* Cli.Execute, one command line at a time
NextCli ==
    \/ CliList
    \/ CliMigrate
    \/ CliFresh
    \/ CliRollback
    \/ CliReset
    \/ CliClean
    \/ CliCreate
    \/ CliBadStep
    \/ CliUsage
    \/ Return

SpecCli == InitCli /\ [][NextCli]_vars

-----------------------------------------------------------------------------
\* The MySQL driver: CleanDatabase on a session whose FOREIGN_KEY_CHECKS the
\* host may have set either way

InitMySql ==
    /\ Start
    /\ cli = NoCli
    /\ mu = 0
    /\ calls = NoCalls
    /\ foreignKeyChecks \in BOOLEAN
    /\ config = BuiltConfig
    /\ q = Qafoia(BuiltConfig[1])
    /\ fs = { <<"migrations">> }
    /\ migrationTableName = DefaultTableName

DoCleanDatabase ==
    \E f \in 0..MaxFail :
        LET r == MySqlCleanDatabase(MySqlSession(tbl, rows, clock, f, foreignKeyChecks))
        IN  /\ tbl' = r.w.tbl
            /\ rows' = r.w.rows
            /\ clock' = r.w.clock
            /\ foreignKeyChecks' = r.w.foreignKeyChecks
            /\ op' = Op("CleanDatabase", 0, <<>>, Injected(r.w))
            /\ pre' = Snapshot
            /\ trace' = r.w.tr
            /\ err' = r.err
            /\ out' = <<>>
            /\ UNCHANGED <<migrations, setup>>

CleanDatabaseM == Idle /\ DoCleanDatabase /\ UNCHANGED <<cli, threads>>

\* the driver's CleanDatabase between Register and Migrate calls, which bring
\* the tables back (the statements of Migrate are those of both drivers)
NextMySql ==
    \/ CleanDatabaseM
    \/ Register1
    \/ Migrate1
    \/ Return

SpecMySql == InitMySql /\ [][NextMySql]_vars

----------------------------------------------------------------------------
\* Reading the observations of the last call

RowNames(rs) == { r.name : r \in rs }
Registered == DOMAIN migrations
At(k) == { i \in DOMAIN trace : trace[i].k = k }
Called(k) == At(k) # {}
Touched(k) == { trace[i].n : i \in At(k) }
Times(k, n) == Cardinality({ i \in At(k) : trace[i].n = n })
RangeOf(l) == { l[i] : i \in DOMAIN l }
Ascending(l) == \A i, j \in DOMAIN l : i < j => LexLess(l[i], l[j])
Descending(l) == \A i, j \in DOMAIN l : i < j => LexLess(l[j], l[i])
\* the list handed to the (only) ApplyMigrations / UnapplyMigrations call
Handed(k) == trace[CHOOSE i \in At(k) : TRUE].l
\* no statement of the call was made to fail
Healthy == ~op.injected

----------------------------------------------------------------------------
\* C1: when Migrate returned nil and Migrate is called again with no other
\* operation in between, the second call applies nothing: ApplyMigrations is
\* not called, no forward script runs, no bookkeeping row is added.
C1_SecondMigrateAppliesNothing ==
    (op.k = "Migrate" /\ pre.op = "Migrate" /\ pre.ok) =>
        /\ ~Called("ApplyMigrations")
        /\ ~Called("up")
        /\ ~Called("insert")
        /\ rows = pre.rows

\* (timestamps above Cardinality(Names) are not initial: the row was written
\* by a Migrate of this behaviour)
C1_Witness ==
    /\ op.k = "Migrate" /\ pre.op = "Migrate" /\ pre.ok
    /\ err = Nil
    /\ Cardinality(Registered) >= 2
    /\ \E r \in rows : r.name \in Registered /\ r.executedAt > Cardinality(Names)

\* C2: after a Migrate that returns nil every registered name is recorded,
\* and every row present before the call is still there, rows of
\* unregistered names included: executed' = executed \cup registry names.
C2_MigrateRecordsAll ==
    (op.k = "Migrate" /\ err = Nil) =>
        /\ RowNames(rows) = RowNames(pre.rows) \cup Registered
        /\ pre.rows \subseteq rows

C2_Witness ==
    /\ op.k = "Migrate" /\ err = Nil
    /\ RowNames(pre.rows) \ Registered # {}
    /\ Registered \ RowNames(pre.rows) # {}
    /\ Registered \cap RowNames(pre.rows) # {}

\* C3: the list Migrate hands to ApplyMigrations is exactly the registered
\* migrations without a bookkeeping row, in strictly ascending name order
\* (so without duplicates), also when a pending name sorts before executed
\* ones; ApplyMigrations is called at most once, and not for an empty list.
C3_PendingListSorted ==
    (op.k = "Migrate" /\ Called("ApplyMigrations")) =>
        /\ Cardinality(At("ApplyMigrations")) = 1
        /\ RangeOf(Handed("ApplyMigrations")) = Registered \ RowNames(pre.rows)
        /\ Handed("ApplyMigrations") # <<>>
        /\ Ascending(Handed("ApplyMigrations"))

C3_Witness ==
    /\ op.k = "Migrate" /\ Called("ApplyMigrations")
    /\ Len(Handed("ApplyMigrations")) >= 2
    /\ \E a \in RangeOf(Handed("ApplyMigrations")), r \in pre.rows :
          r.name \in Registered /\ LexLess(a, r.name)

\* the batch l broke off at its k-th migration
FailedAt(l, k) ==
    /\ \A j \in 1..(k - 1) :
          /\ l[j] \in RowNames(rows) \ RowNames(pre.rows)
          /\ Times("insert", l[j]) = 1
          /\ Times("onSuccess", l[j]) = 1
          /\ Times("onFailed", l[j]) = 0
    /\ Times("onRunning", l[k]) = 1
    /\ Times("onFailed", l[k]) = 1
    /\ Times("onSuccess", l[k]) = 0
    /\ trace[Len(trace)] = Hook("onFailed", l[k])
    /\ l[k] \notin RowNames(rows)
    /\ \A j \in (k + 1)..Len(l) :
          /\ l[j] \notin RowNames(rows)
          /\ \A i \in DOMAIN trace : trace[i].n # l[j]
    /\ Len(err) = 2
    /\ err[1].n = l[k]
    /\ err[1].msg \in {"failed to apply migration", "failed to record migration"}
    /\ Tail(err) = DbError

\* C4: when the driver fails on the k-th migration of the batch Migrate
\* handed to ApplyMigrations (its script or its insert), migrations 1..k-1
\* are recorded by this call, onFailed is invoked once for migration k and is
\* the last thing that happens, migration k has no row, migrations k+1.. see
\* no hook, no script and no row, and Migrate returns the driver's error
\* wrapped with the name of migration k.
C4_ApplyFailFast ==
    (op.k = "Migrate" /\ Called("ApplyMigrations")) =>
        /\ (err # Nil) = Called("onFailed")
        /\ err # Nil =>
              \E k \in DOMAIN Handed("ApplyMigrations") :
                  FailedAt(Handed("ApplyMigrations"), k)

C4_Witness ==
    /\ op.k = "Migrate" /\ Called("ApplyMigrations") /\ err # Nil
    /\ Len(Handed("ApplyMigrations")) = 3
    /\ FailedAt(Handed("ApplyMigrations"), 2)
    /\ Times("up", Handed("ApplyMigrations")[2]) = 1

\* C5 as claimed: for every step greater than the number of executed
\* migrations Rollback(step) unapplies exactly that many migrations, so that
\* every bookkeeping row is removed, and returns no error.
C5_AsClaimed ==
    (op.k = "Rollback" /\ op.step > Cardinality(pre.rows) /\ pre.tbl /\ Healthy) =>
        /\ err = Nil
        /\ rows = {}
        /\ Cardinality(At("delete")) = Cardinality(pre.rows)

\* C5 as amended: for every step greater than the number of executed
\* migrations Rollback(step) unapplies exactly the executed migrations that
\* are registered, each once (all of them, leaving no row, when every
\* executed name is registered); rows of unregistered names stay; the step
\* itself is never the reason of an error: an error is one the driver
\* returned.
C5_OverLargeStep ==
    (op.k = "Rollback" /\ op.step > Cardinality(pre.rows)) =>
        /\ (pre.tbl /\ Healthy) =>
              /\ err = Nil
              /\ rows = { r \in pre.rows : r.name \notin Registered }
              /\ Touched("delete") = RowNames(pre.rows) \cap Registered
              /\ Cardinality(At("delete")) = Cardinality(RowNames(pre.rows) \cap Registered)
              /\ RowNames(pre.rows) \subseteq Registered => rows = {}
        /\ err # Nil => (op.injected \/ ~pre.tbl)
        /\ err # ErrInvalidRollbackStep

C5_Witness ==
    /\ op.k = "Rollback" /\ op.step > Cardinality(pre.rows)
    /\ err = Nil
    /\ Cardinality(At("delete")) = 2
    /\ Cardinality(rows) = 1

\* C6: Rollback(step) with step <= 0 returns ErrInvalidRollbackStep, makes no
\* driver call and sends no statement, and leaves registry and database as
\* they were.
C6_InvalidStep ==
    (op.k = "Rollback" /\ op.step <= 0) =>
        /\ err = ErrInvalidRollbackStep
        /\ trace = <<>>
        /\ ~op.injected
        /\ migrations = pre.migrations
        /\ rows = pre.rows
        /\ tbl = pre.tbl

C6_Witness ==
    /\ op.k = "Rollback" /\ op.step = -1
    /\ err = ErrInvalidRollbackStep
    /\ pre.rows # {}
    /\ Registered # {}

\* the rows executed after the row of name n
LaterThan(n) == { r \in pre.rows : \E x \in pre.rows : x.name = n /\ r.executedAt > x.executedAt }

\* C7 as claimed: Rollback(step) unapplies the `step` migrations executed
\* most recently (by execution time), the most recent first.
C7_UndoesMostRecent ==
    (op.k = "Rollback" /\ Called("UnapplyMigrations") /\ RowNames(pre.rows) \subseteq Registered) =>
        LET l == Handed("UnapplyMigrations")
        IN  /\ \A i \in DOMAIN l : Cardinality(LaterThan(l[i])) = i - 1

\* the k greatest row names; the query of the call was the statement that failed
FirstByNameDesc(k) ==
    { n \in RowNames(pre.rows) :
        Cardinality({ m \in RowNames(pre.rows) : LexLess(n, m) }) < k }
QueryFailed == op.injected /\ Len(trace) = 1

\* C8: the list Rollback(step) hands to UnapplyMigrations is exactly the
\* registered migrations among the first min(step, executedCount) rows in
\* descending name order, in that order; an executed name that is not
\* registered is skipped without error and still uses up a step; when nothing
\* is left Rollback returns nil and does not call UnapplyMigrations.
C8_RollbackList ==
    (op.k = "Rollback" /\ op.step > 0 /\ pre.tbl /\ ~QueryFailed) =>
        LET expected == FirstByNameDesc(op.step) \cap Registered
        IN  IF expected = {}
            THEN /\ err = Nil
                 /\ trace = << CallRev("GetExecutedMigrations", TRUE) >>
            ELSE /\ Cardinality(At("UnapplyMigrations")) = 1
                 /\ RangeOf(Handed("UnapplyMigrations")) = expected
                 /\ Descending(Handed("UnapplyMigrations"))
                 /\ Healthy => err = Nil

C8_Witness ==
    /\ op.k = "Rollback" /\ err = Nil
    /\ op.step = 2 /\ Cardinality(pre.rows) = 3
    /\ Called("UnapplyMigrations")
    /\ Len(Handed("UnapplyMigrations")) = 1
    /\ Cardinality(Registered) = 2

\* C9: Reset with zero executed migrations (the driver reports an empty
\* list) calls neither CleanDatabase nor UnapplyMigrations and returns nil.
C9_ResetNothingExecuted ==
    (op.k = "Reset" /\ pre.rows = {}) =>
        /\ ~Called("CleanDatabase")
        /\ ~Called("UnapplyMigrations")
        /\ ~Called("down") /\ ~Called("delete")
        /\ (pre.tbl /\ Healthy) => err = Nil

C9_Witness ==
    /\ op.k = "Reset" /\ pre.rows = {} /\ pre.tbl
    /\ err = Nil
    /\ Cardinality(Registered) >= 2

\* C10 as claimed: Reset with zero executed migrations still runs Migrate, so
\* that after it returns nil every registered migration is recorded.
C10_AsClaimed ==
    (op.k = "Reset" /\ pre.rows = {} /\ err = Nil) =>
        Registered \subseteq RowNames(rows)

\* C10 as amended: Reset with zero executed migrations does not run Migrate:
\* it returns right after its GetExecutedMigrations call, CreateMigrationsTable
\* and ApplyMigrations are not called, and the registered migrations stay
\* pending.
C10_ResetDoesNotMigrate ==
    (op.k = "Reset" /\ pre.rows = {}) =>
        /\ trace = << CallRev("GetExecutedMigrations", TRUE) >>
        /\ rows = {}
        /\ tbl = pre.tbl

C10_Witness ==
    /\ op.k = "Reset" /\ pre.rows = {} /\ pre.tbl
    /\ err = Nil
    /\ Registered # {}
    /\ rows = {}
    /\ ~Called("ApplyMigrations")

\* positions of the trace where something is unapplied / applied
UnapplySteps == At("UnapplyMigrations") \cup At("down") \cup At("delete")
ApplySteps == At("ApplyMigrations") \cup At("up") \cup At("insert")
\* rows of names the registry does not know
Orphans(rs) == { r \in rs : r.name \notin Registered }

\* C11 as claimed: a Reset that returns nil with at least one executed
\* migration unapplies every migration recorded at its start exactly once,
\* and afterwards the bookkeeping set equals the registry's name set.
C11_AsClaimed ==
    (op.k = "Reset" /\ err = Nil /\ pre.rows # {}) =>
        /\ \A n \in RowNames(pre.rows) : Times("delete", n) = 1
        /\ RowNames(rows) = Registered

\* C11 as amended: a Reset that returns nil with at least one executed
\* migration unapplies every executed migration that is registered exactly
\* once, in descending name order, and no other; rows of unregistered names
\* stay as they were; all unapply steps precede all apply steps; afterwards
\* every registered migration is applied exactly once in ascending name
\* order, so the bookkeeping set is the registry's name set plus the
\* unregistered names recorded before.
C11_ResetUnwindsThenReapplies ==
    (op.k = "Reset" /\ err = Nil /\ pre.rows # {}) =>
        LET undone == RowNames(pre.rows) \cap Registered
        IN  /\ Touched("delete") = undone
            /\ \A n \in undone : Times("delete", n) = 1 /\ Times("insert", n) = 1
            /\ undone # {} =>
                  /\ Cardinality(At("UnapplyMigrations")) = 1
                  /\ RangeOf(Handed("UnapplyMigrations")) = undone
                  /\ Descending(Handed("UnapplyMigrations"))
            /\ \A i \in UnapplySteps, j \in ApplySteps : i < j
            /\ Touched("insert") = Registered
            /\ Registered # {} =>
                  /\ Cardinality(At("ApplyMigrations")) = 1
                  /\ RangeOf(Handed("ApplyMigrations")) = Registered
                  /\ Ascending(Handed("ApplyMigrations"))
            /\ RowNames(rows) = Registered \cup RowNames(Orphans(pre.rows))
            /\ Orphans(pre.rows) \subseteq rows
            /\ Cardinality(rows) = Cardinality(RowNames(rows))

C11_Witness ==
    /\ op.k = "Reset" /\ err = Nil
    /\ Cardinality(pre.rows) = 2
    /\ RowNames(pre.rows) \subseteq Registered
    /\ Cardinality(Registered) = 3
    /\ Len(Handed("UnapplyMigrations")) = 2
    /\ Len(Handed("ApplyMigrations")) = 3
    /\ Called("down") /\ Called("up")

\* the phase of Reset that failed, read from the error it returned
RollbackPhaseFailed == err # Nil /\ err[1].msg = "rollback failed during reset"
MigratePhaseFailed == err # Nil /\ err[1].msg = "migration failed during reset"
\* a migration of the batch handed to UnapplyMigrations failed
UnapplyFailed == Called("onFailed") /\ ~Called("ApplyMigrations")

\* C12 as claimed (second half): when the rollback phase of Reset succeeds
\* and the Migrate phase fails before recording any migration, the
\* bookkeeping set is empty.
C12_AsClaimed ==
    (op.k = "Reset" /\ MigratePhaseFailed /\ ~Called("insert")) => rows = {}

\* C12 as amended: Reset is not atomic across its two phases.  When the
\* rollback phase fails (its query, a reverse script or a bookkeeping delete)
\* Reset returns an error without starting the Migrate phase: no
\* CreateMigrationsTable, no ApplyMigrations, no forward script, no insert.
\* When the rollback phase succeeds and the Migrate phase fails before
\* recording any migration, Reset returns an error and the database is left
\* unwound: no registered migration has a bookkeeping row, and what is left
\* are the rows of unregistered names, which Rollback skipped.
C12_ResetNotAtomic ==
    (op.k = "Reset" /\ pre.rows # {}) =>
        /\ UnapplyFailed => RollbackPhaseFailed
        /\ RollbackPhaseFailed =>
              /\ ~Called("CreateMigrationsTable")
              /\ ~Called("ApplyMigrations")
              /\ ApplySteps = {}
              /\ Cardinality(At("GetExecutedMigrations")) = 2
        /\ (MigratePhaseFailed /\ ~Called("insert")) =>
              /\ Called("CreateMigrationsTable")
              /\ rows = Orphans(pre.rows)
              /\ RowNames(rows) \cap Registered = {}
              /\ Touched("delete") = RowNames(pre.rows) \cap Registered
        /\ (err # Nil /\ Called("CreateMigrationsTable")) => MigratePhaseFailed

C12_Witness ==
    /\ op.k = "Reset" /\ MigratePhaseFailed /\ ~Called("insert")
    /\ Cardinality(pre.rows) = 2
    /\ Cardinality(At("delete")) = 2
    /\ rows = {}
    /\ Registered # {}

CleanFailed ==
    /\ Len(err) = 3
    /\ err[1] = [msg |-> "failed to clean database", n |-> EmptyName]
    /\ err[2].msg \in {"query table names", "drop tables"}
    /\ Tail(Tail(err)) = DbError

\* C14: when CleanDatabase fails during Fresh, Fresh returns an error that
\* wraps the driver's error, and CleanDatabase is the only driver call:
\* CreateMigrationsTable, GetExecutedMigrations and ApplyMigrations are not
\* called and nothing is changed.  A Fresh that gets as far as
\* CreateMigrationsTable has cleaned the database: no earlier row is left.
C14_FreshCleanFails ==
    op.k = "Fresh" =>
        /\ (err # Nil /\ err[1].msg = "failed to clean database") =>
              /\ CleanFailed
              /\ trace = << Call("CleanDatabase") >>
              /\ op.injected
              /\ rows = pre.rows /\ tbl = pre.tbl /\ migrations = pre.migrations
        /\ Len(trace) = 1 => CleanFailed
        /\ Len(trace) > 1 =>
              /\ trace[2] = Call("CreateMigrationsTable")
              /\ rows \cap pre.rows = {}
              /\ err # Nil => err[1].msg = "failed to run migrations after cleaning"

C14_Witness ==
    /\ op.k = "Fresh" /\ CleanFailed
    /\ err[2].msg = "drop tables"
    /\ trace = << Call("CleanDatabase") >>
    /\ Cardinality(pre.rows) >= 2
    /\ rows = pre.rows
    /\ Registered \ RowNames(pre.rows) # {}

\* C15: Clean invokes exactly one driver operation, CleanDatabase, and
\* nothing else: no migration is applied or unapplied, no hook runs, the
\* registry is unchanged.  It returns nil iff CleanDatabase succeeds, and
\* then no bookkeeping row is left; otherwise it returns the driver's error
\* wrapped with "failed to clean database" and the database is as it was.
C15_CleanOnly ==
    op.k = "Clean" =>
        /\ trace = << Call("CleanDatabase") >>
        /\ migrations = pre.migrations
        /\ (err = Nil) = Healthy
        /\ err = Nil => rows = {} /\ ~tbl
        /\ err # Nil => CleanFailed /\ rows = pre.rows /\ tbl = pre.tbl

C15_Witness ==
    /\ op.k = "Clean" /\ CleanFailed
    /\ err[2].msg = "query table names"
    /\ Cardinality(pre.rows) >= 2
    /\ Registered # {}

\* the names of the list returned, in the order returned
OutNames == [i \in DOMAIN out |-> out[i].name]

\* C16: List returns exactly one entry per registered migration, in
\* ascending name order, with the scripts of that migration; an entry is
\* marked executed iff its name has a bookkeeping row, and then carries the
\* timestamp of that very row, and carries none (0) otherwise; executed names
\* that are not registered do not appear; List changes neither the registry
\* nor any bookkeeping row, and returns no list with an error.
C16_ListEntries ==
    op.k = "List" =>
        /\ migrations = pre.migrations
        /\ rows = pre.rows
        /\ err # Nil => out = <<>>
        /\ err = Nil =>
              /\ RangeOf(OutNames) = Registered
              /\ Len(out) = Cardinality(Registered)
              /\ Ascending(OutNames)
              /\ \A i \in DOMAIN out :
                    LET e == out[i]
                    IN  /\ e.upScript = migrations[e.name].up
                        /\ e.downScript = migrations[e.name].down
                        /\ e.isExecuted = (e.name \in RowNames(rows))
                        /\ e.isExecuted => ExecutedMigration(e.name, e.executedAt) \in rows
                        /\ ~e.isExecuted => e.executedAt = 0

C16_Witness ==
    /\ op.k = "List" /\ err = Nil
    /\ Len(out) = 3
    /\ out[1].isExecuted /\ out[2].isExecuted /\ ~out[3].isExecuted
    /\ out[1].executedAt > out[2].executedAt
    /\ out[3].executedAt = 0

\* the arguments of the last Register call that the call had to refuse when
\* it came to them: the name is empty, registered before the call, or the
\* name of an earlier argument
Refused ==
    { i \in DOMAIN op.args :
        \/ op.args[i].name = EmptyName
        \/ op.args[i].name \in DOMAIN pre.migrations
        \/ \E j \in 1..(i - 1) : op.args[j].name = op.args[i].name }
\* the argument the call stopped at
FirstRefused == CHOOSE i \in Refused : \A j \in Refused : i <= j
DuplicateName(n) == Errorf("migration registered more than once", n, Nil)

\* C17: a Register call that comes to a name registered by an earlier call
\* returns the error "registered more than once" for that name and does not
\* alter the first registration: the registry still maps the name, and every
\* name registered before, to the migration registered originally.
C17_DuplicateKeepsFirst ==
    (op.k = "Register" /\ Refused # {}
        /\ op.args[FirstRefused].name \in DOMAIN pre.migrations) =>
        /\ err = DuplicateName(op.args[FirstRefused].name)
        /\ \A n \in DOMAIN pre.migrations :
              n \in DOMAIN migrations /\ migrations[n] = pre.migrations[n]

C17_Witness ==
    /\ op.k = "Register" /\ Len(op.args) = 1
    /\ op.args[1].name \in DOMAIN pre.migrations
    /\ op.args[1] # pre.migrations[op.args[1].name]
    /\ err = DuplicateName(op.args[1].name)
    /\ migrations = pre.migrations

\* the arguments before the i-th, and their names
Before(i) == 1..(i - 1)
NamesBefore(i) == { op.args[j].name : j \in Before(i) }

\* C18: a Register call that fails at its i-th argument (empty name, name
\* registered before, or name of an earlier argument of the same call)
\* leaves arguments 1..i-1 inserted, each under its own name, inserts none of
\* the arguments i..n, and leaves what was registered before as it was; a
\* call with no such argument returns nil and inserts all of them.
C18_RegisterPartial ==
    op.k = "Register" =>
        LET i == IF Refused = {} THEN Len(op.args) + 1 ELSE FirstRefused
        IN  /\ (err = Nil) = (Refused = {})
            /\ DOMAIN migrations = DOMAIN pre.migrations \cup NamesBefore(i)
            /\ \A j \in Before(i) : migrations[op.args[j].name] = op.args[j]
            /\ \A n \in DOMAIN pre.migrations : migrations[n] = pre.migrations[n]
            /\ \A j \in i..Len(op.args) :
                  \/ op.args[j].name \notin DOMAIN migrations
                  \/ op.args[j].name \in DOMAIN pre.migrations \cup NamesBefore(i)

C18_Witness ==
    /\ op.k = "Register" /\ Len(op.args) = 2
    /\ Refused = {2}
    /\ op.args[2].name = op.args[1].name
    /\ pre.migrations # <<>>
    /\ DOMAIN migrations = DOMAIN pre.migrations \cup {op.args[1].name}
    /\ migrations[op.args[1].name] = op.args[1]
    /\ err = DuplicateName(op.args[1].name)

\* C19: after any sequence of Register calls, successful or failing, every
\* key of the registry is a non-empty name and is the Name() of the migration
\* stored under it, so that no name is held twice; a call that comes to a
\* migration with an empty name stops there with ErrMigrationNameNotProvided.
C19_RegistryKeys ==
    /\ \A n \in DOMAIN migrations : n # EmptyName /\ migrations[n].name = n
    /\ Cardinality({ migrations[n].name : n \in DOMAIN migrations })
          = Cardinality(DOMAIN migrations)
    /\ (op.k = "Register" /\ Refused # {} /\ op.args[FirstRefused].name = EmptyName) =>
          /\ err = ErrMigrationNameNotProvided
          /\ EmptyName \notin DOMAIN migrations

C19_Witness ==
    /\ op.k = "Register" /\ Len(op.args) = 2
    /\ Refused = {2}
    /\ op.args[2].name = EmptyName
    /\ err = ErrMigrationNameNotProvided
    /\ Cardinality(DOMAIN pre.migrations) = 2
    /\ Cardinality(DOMAIN migrations) = 3

\* the last call returned a validation error
NewRefused == op.k = "New" /\ err # Nil
RegisterRefused == op.k = "Register" /\ err # Nil
RollbackRefused == op.k = "Rollback" /\ err = ErrInvalidRollbackStep
ValidationError == NewRefused \/ RegisterRefused \/ RollbackRefused
\* no driver call was made, no statement was sent, the database is as it was
DatabaseUntouched ==
    /\ trace = <<>>
    /\ ~op.injected
    /\ rows = pre.rows
    /\ tbl = pre.tbl

\* C20 as claimed: every validation error (New with nil config, nil driver,
\* invalid table name or missing directory; Register with an empty or
\* duplicate name; Rollback with step <= 0) is returned with the registry,
\* the caller's configuration and the bookkeeping set all unchanged.
C20_AsClaimed ==
    ValidationError =>
        /\ migrations = pre.migrations
        /\ config = pre.config
        /\ rows = pre.rows

\* C20 as amended: every validation error is detected before any driver or
\* database operation is invoked, and the bookkeeping set is unchanged.  New
\* returns no engine; for a nil config or a nil driver the caller's Config is
\* unchanged, and for an invalid table name or a missing directory it is
\* unchanged except that an empty MigrationFilesDir and an empty
\* MigrationTableName have been replaced by their defaults.  Register leaves
\* the configuration alone and the registry unchanged except for the
\* arguments that came before the one refused.  Rollback with step <= 0
\* changes nothing.
C20_ValidationBeforeDatabase ==
    /\ ValidationError => DatabaseUntouched
    /\ NewRefused =>
          /\ q = NilQafoia
          /\ migrationTableName = DefaultTableName
          /\ migrations = pre.migrations
          /\ err \in {ErrConfigNotProvided, ErrDriverNotProvided} => config = pre.config
          /\ err \notin {ErrConfigNotProvided, ErrDriverNotProvided} =>
                config = << WithDefaults(pre.config[1]) >>
    /\ RegisterRefused =>
          /\ config = pre.config
          /\ Refused # {}
          /\ DOMAIN migrations = DOMAIN pre.migrations \cup NamesBefore(FirstRefused)
          /\ \A n \in DOMAIN pre.migrations : migrations[n] = pre.migrations[n]
          /\ FirstRefused = 1 => migrations = pre.migrations
    /\ (op.k = "Rollback" /\ op.step <= 0) =>
          /\ RollbackRefused
          /\ config = pre.config
          /\ migrations = pre.migrations

C20_Witness ==
    /\ NewRefused
    /\ err = Errorf("invalid migration table name", EmptyName, NewError("invalid table name"))
    /\ pre.config[1].MigrationFilesDir = ""
    /\ config[1].MigrationFilesDir = "migrations"
    /\ rows # {}
    /\ DatabaseUntouched

\* the engine operations that call the driver
EngineOps == {"Migrate", "Rollback", "Reset", "Fresh", "Clean", "List"}
\* a driver call of the last operation returned an error: a statement was
\* made to fail, or the operation queried a bookkeeping table that is not there
DriverFailed ==
    /\ op.k \in EngineOps
    /\ \/ op.injected
       \/ ~pre.tbl /\ (op.k = "Reset" \/ (op.k = "Rollback" /\ op.step > 0))
\* the innermost error of the chain returned
Cause == err[Len(err)]
\* the events a failing driver call leaves last: the call itself, or the
\* onFailed hook of the batch
FailureEnds == {"CreateMigrationsTable", "GetExecutedMigrations", "CleanDatabase", "onFailed"}

\* C21: the engine never swallows a driver error: whenever a driver call
\* made by Migrate, Rollback, Reset, Fresh, Clean or List returns an error,
\* the operation returns a non-nil error whose chain carries the driver's
\* error, and the failing call is the last driver activity of the operation;
\* and these operations return no error of their own making other than
\* ErrInvalidRollbackStep.
C21_NeverSwallows ==
    op.k \in EngineOps =>
        /\ DriverFailed =>
              /\ err # Nil
              /\ Cause = DbError[1]
              /\ trace # <<>>
              /\ trace[Len(trace)].k \in FailureEnds
              /\ Cardinality(At("onFailed")) <= 1
              /\ \A i \in At("onFailed") : i = Len(trace)
        /\ ~DriverFailed => err \in {Nil, ErrInvalidRollbackStep}
        /\ ~DriverFailed => ~Called("onFailed")

C21_Witness ==
    /\ op.k = "Reset" /\ op.injected
    /\ Called("UnapplyMigrations") /\ Called("ApplyMigrations")
    /\ Called("delete") /\ Called("up")
    /\ trace[Len(trace)].k = "onFailed"
    /\ Len(err) = 3
    /\ err[2].msg = "failed to record migration"

\* the commands whose Run function calls the engine
EngineCommands ==
    {"list", "migrate", "migrate --fresh", "rollback", "reset", "clean", "create"}

\* C22 as claimed: when the engine operation run by a command of the command
\* line (list, migrate, rollback, reset, clean, create) returns an error,
\* the error is logged and Cli.Execute returns a non-nil error.
C22_CliReportsEngineError ==
    (cli.cmd \in EngineCommands /\ err # Nil) =>
        /\ cli.logged
        /\ cli.ret # Nil

\* the batches of the last operation: the positions of its ApplyMigrations
\* and UnapplyMigrations calls
Batches == At("ApplyMigrations") \cup At("UnapplyMigrations")
\* what a batch leaves in the trace: everything up to the next driver call
BatchEnd(b) ==
    LET later == { i \in DOMAIN trace : i > b /\ trace[i].k \in DriverCalls }
    IN  IF later = {} THEN Len(trace)
        ELSE (CHOOSE i \in later : \A j \in later : i <= j) - 1
Segment(b) == SubSeq(trace, b + 1, BatchEnd(b))
IsHook(e) == e.k \in {"onRunning", "onSuccess", "onFailed"}
HookSeq(b) == SelectSeq(Segment(b), IsHook)
\* the statements of a batch: its scripts and its bookkeeping statements
ScriptOf(b) == IF trace[b].k = "ApplyMigrations" THEN "up" ELSE "down"
RecordOf(b) == IF trace[b].k = "ApplyMigrations" THEN "insert" ELSE "delete"
HasScript(b, n) ==
    IF trace[b].k = "ApplyMigrations" THEN migrations[n].up # "" ELSE migrations[n].down # ""

\* the hooks of batch b come in pairs, migration by migration in batch order
HooksInOrder(b) ==
    LET h == HookSeq(b)
        l == trace[b].l
    IN  /\ Len(h) % 2 = 0
        /\ Len(h) <= 2 * Len(l)
        /\ \A j \in DOMAIN h :
              IF j % 2 = 1
              THEN h[j] = Hook("onRunning", l[(j + 1) \div 2])
              ELSE /\ h[j].n = l[j \div 2]
                   /\ h[j].k \in {"onSuccess", "onFailed"}
                   /\ h[j].k = "onFailed" => j = Len(h)
        /\ (h = <<>> \/ h[Len(h)].k # "onFailed") => Len(h) = 2 * Len(l)

\* in batch b every statement lies between the hooks of its migration:
\* onRunning, the script (when there is one), the bookkeeping statement,
\* onSuccess; onFailed takes the place of the first statement that failed
StatementsInside(b) ==
    LET s == Segment(b)
    IN  \A p \in DOMAIN s :
            LET n == s[p].n
            IN  /\ s[p].k \in {"onRunning", "onSuccess", "onFailed", ScriptOf(b), RecordOf(b)}
                /\ s[p].k = ScriptOf(b) => HasScript(b, n) /\ s[p - 1] = Hook("onRunning", n)
                /\ s[p].k = RecordOf(b) =>
                      s[p - 1] = (IF HasScript(b, n) THEN Stmt(ScriptOf(b), n)
                                                     ELSE Hook("onRunning", n))
                /\ s[p].k = "onSuccess" => s[p - 1] = Stmt(RecordOf(b), n)
                /\ s[p].k = "onFailed" =>
                      s[p - 1] \in {Hook("onRunning", n), Stmt(ScriptOf(b), n)}

\* C23: hook protocol of ApplyMigrations and UnapplyMigrations.  For each
\* migration of the batch, in batch order, onRunning is invoked exactly once
\* before its script runs, followed by exactly one of onSuccess (only after
\* the script and the bookkeeping insert/delete have both succeeded) or
\* onFailed (in place of the step that failed); no hook of the next migration
\* fires before onSuccess of this one; at most one onFailed fires, it is the
\* last hook of the batch and the last event of the operation; a batch
\* without onFailed runs through all its migrations.
C23_HookProtocol ==
    /\ \A b \in Batches : HooksInOrder(b) /\ StatementsInside(b)
    /\ \A i \in DOMAIN trace :
          /\ IsHook(trace[i]) => \E b \in Batches : b < i /\ i <= BatchEnd(b)
          /\ trace[i].k = "onFailed" => i = Len(trace)
    /\ Cardinality(At("onFailed")) <= 1

C23_Witness ==
    /\ op.k = "Migrate"
    /\ \E b \in Batches :
          /\ Len(trace[b].l) = 3
          /\ Len(HookSeq(b)) = 6
          /\ HookSeq(b)[6].k = "onFailed"
          /\ ~HasScript(b, trace[b].l[1])
          /\ Segment(b)[Len(Segment(b)) - 1].k = "up"

\* reading the trace of a thread's call
AtIn(tr, k) == { i \in DOMAIN tr : tr[i].k = k }
TouchedIn(tr, k) == { tr[i].n : i \in AtIn(tr, k) }
HandedIn(tr, k) == tr[CHOOSE i \in AtIn(tr, k) : TRUE].l
\* the call of the retrying thread: a Migrate that follows a failed Migrate
Retried == calls[1].kind = "Migrate" /\ calls[1].retry
\* the registered names without a row in rs, in ascending order
Unrecorded(rs) ==
    LET sorted == getSortedMigrationName(migrations)
        Missing(n) == n \notin RowNames(rs)
    IN  SelectSeq(sorted, Missing)
AllExecuted == Registered \subseteq RowNames(rows)
\* what a retry does: it hands over exactly what was not recorded when it
\* began, runs no forward script of a migration that was, and, when it
\* returns nil, leaves every registered migration recorded
RetrySafe ==
    LET c == calls[1]
        returned == c.pc = "done"
        applies == AtIn(c.tr, "ApplyMigrations") # {}
    IN  Retried =>
            /\ applies => HandedIn(c.tr, "ApplyMigrations") = Unrecorded(c.rows0)
            /\ (returned /\ ~applies /\ c.err = Nil) => Unrecorded(c.rows0) = <<>>
            /\ TouchedIn(c.tr, "up") \cap RowNames(c.rows0) = {}
            /\ TouchedIn(c.tr, "insert") \cap RowNames(c.rows0) = {}
            /\ c.rows0 \subseteq rows
            /\ (returned /\ c.err = Nil) => AllExecuted
\* a step in which the driver makes a statement fail
DriverFails ==
    \E p \in Threads : calls'[p].n > calls[p].n /\ calls'[p].n = calls'[p].failAt

\* C24: re-invoking Migrate after a failed Migrate is safe: the retry hands
\* the driver exactly the registered migrations that are not yet recorded and
\* never runs the forward script of a recorded one; and when the driver stops
\* failing, the retries reach a state, kept from then on, in which every
\* registered migration is executed.
C24_RetryIsSafe ==
    /\ []RetrySafe
    /\ (<>[][~DriverFails]_vars) => <>[]AllExecuted

C24_Witness ==
    /\ Retried
    /\ calls[1].pc = "done"
    /\ calls[1].err = Nil
    /\ AllExecuted
    /\ Len(calls[1].pending) = 2
    /\ TouchedIn(calls[1].tr, "up") # {}
    /\ RowNames(calls[1].rows0) \cap Registered # {}

\* the Register calls that ran together have all returned
RegistersDone ==
    /\ Batch # {}
    /\ \A o \in Batch : calls[o].kind = "Register" /\ calls[o].pc = "done"
\* the registry and the errors are those of the call of a, then the call of b
Serial(a, b) ==
    LET r1 == Register(BatchRegistry, calls[a].args)
        r2 == Register(r1.reg, calls[b].args)
    IN  /\ migrations = r2.reg
        /\ calls[a].err = r1.err
        /\ calls[b].err = r2.err
Alone(a) ==
    LET r == Register(BatchRegistry, calls[a].args)
    IN  migrations = r.reg /\ calls[a].err = r.err
Serialisable ==
    IF Batch = Threads THEN Serial(1, 2) \/ Serial(2, 1)
    ELSE \A a \in Batch : Alone(a)
\* the names a call submitted, those it came to, and those it inserted: a
\* call that has returned stands at the argument that was refused, or
\* behind the last one
Submitted(a) == { calls[a].args[j].name : j \in DOMAIN calls[a].args } \ {EmptyName}
CameTo(a) ==
    { calls[a].args[j].name : j \in { k \in DOMAIN calls[a].args : k <= calls[a].i } }
        \ {EmptyName}
Inserted(a) ==
    { calls[a].args[j].name : j \in { k \in DOMAIN calls[a].args : k < calls[a].i } }
IsDuplicateError(e) == e # Nil /\ e[1].msg = "migration registered more than once"
\* of two calls, exactly one inserted n and the other one was refused
OneInserts(n, refusal(_)) ==
    \E a, b \in Threads :
        /\ a # b
        /\ n \in Inserted(a)
        /\ n \notin Inserted(b)
        /\ refusal(calls[b].err)
\* the mutex is held by the one thread that is inside Register
MutexHeld ==
    \A a \in Threads : (calls[a].pc \in {"check", "insert"}) <=> (mu = a)

SameRead ==
    /\ Batch = Threads
    /\ \A a \in Threads : calls[a].kind = "Migrate" /\ calls[a].pc = "done"
    /\ calls[1].executed = calls[2].executed
    /\ calls[1].pending = calls[2].pending
    /\ calls[1].pending # <<>>
\* call b lost the race for the first migration: the other call went
\* through, b ran the forward script as well and was refused the insert
Lost(b) ==
    LET first == calls[b].pending[1]
    IN  /\ calls[b].err = Errorf("failed to record migration", first.name, DbError)
        /\ \A a \in Threads \ {b} :
              /\ calls[a].err = Nil
              /\ first.name \in TouchedIn(calls[a].tr, "insert")
        /\ first.name \notin TouchedIn(calls[b].tr, "insert")
        /\ first.up # "" =>
              \A a \in Threads : Cardinality({ i \in AtIn(calls[a].tr, "up") :
                                                 calls[a].tr[i].n = first.name }) = 1
\* Migrate does not take the mutex
NoLock == \A a \in Threads : calls[a].kind = "Migrate" /\ calls[a].pc # "idle" => mu = 0

\* C26: concurrent Migrate calls are not safe.  Migrate runs without the
\* mutex or any lock on the bookkeeping table, and whenever two Migrate calls
\* that run together read the same bookkeeping set, they select the same
\* pending migrations, the forward script of the first one is executed by
\* both calls, and exactly one call fails on its bookkeeping insert while
\* the other one goes through.
C26_ConcurrentMigrateUnsafe ==
    /\ NoLock
    /\ SameRead => \E b \in Threads : Lost(b)

C26_Witness ==
    /\ SameRead
    /\ Len(calls[1].pending) = 2
    /\ calls[1].pending[1].up # ""
    /\ Lost(2)
    /\ \A a \in Threads : calls[a].pending[1].name \in TouchedIn(calls[a].tr, "up")
    /\ AllExecuted

\* the characters the claim admits, and its account of the result
NameAlphabet == (48..57) \cup (65..90) \cup (97..122) \cup {95, 32, 45}
AsciiLower(c) == IF c \in 65..90 THEN c + 32 ELSE c
Underscored(s) ==
    [i \in DOMAIN s |-> IF s[i] \in {32, 45} THEN 95 ELSE AsciiLower(s[i])]
RECURSIVE DropLeft(_, _)
DropLeft(s, cut) ==
    IF s # <<>> /\ Head(s) \in cut THEN DropLeft(Tail(s), cut) ELSE s
RECURSIVE DropRight(_, _)
DropRight(s, cut) ==
    IF s # <<>> /\ s[Len(s)] \in cut THEN DropRight(SubSeq(s, 1, Len(s) - 1), cut) ELSE s
Stripped(s, cut) == DropRight(DropLeft(s, cut), cut)
Claimed(s) == Stripped(Underscored(s), {95})
\* sanitizeMigrationName has been applied to name
Sanitized(name) == op.k = "sanitizeMigrationName" /\ op.args = <<name>>

\* C27 as stated: sanitizeMigrationName fails for every input with a
\* character outside [A-Za-z0-9_ -] and for every input that is empty after
\* sanitizing; for every other input it returns the input lower-cased, with
\* spaces and dashes replaced by underscores and without leading and trailing
\* underscores.
C27_AsClaimed ==
    \A name \in InputNames : Sanitized(name) =>
        IF (\E i \in DOMAIN name : name[i] \notin NameAlphabet) \/ Claimed(name) = <<>>
        THEN err # Nil
        ELSE err = Nil /\ out = Claimed(name)

\* white space other than the plain space, which has become an underscore
\* by the time white space is trimmed
OtherSpace == {9, 10, 11, 12, 13, 133, 160}
\* lower case of a character: the Kelvin sign is a capital k
Lower(c) == IF c = 8490 THEN 107 ELSE AsciiLower(c)
\* the name as it is checked: underscores for spaces and dashes, lower case,
\* without white space and then underscores at its ends
Cleaned(s) ==
    Stripped(Stripped([i \in DOMAIN s |-> IF s[i] \in {32, 45} THEN 95 ELSE Lower(s[i])],
                      OtherSpace),
             {95})
\* the characters of s that begin within its first NameLimit bytes
Kept(s) ==
    { i \in DOMAIN s : ByteLen(SubSeq(s, 1, i - 1)) < NameLimit }

\* C27: sanitizeMigrationName replaces spaces and dashes by underscores,
\* lower-cases, removes white space and then underscores at both ends, and
\* cuts the result to 200 bytes.  It fails when nothing is left or when a
\* character that begins within these 200 bytes is outside [a-z0-9_];
\* otherwise it returns what is left.  For an input of at most 200 bytes
\* made of [A-Za-z0-9_ -] this is the result the claim describes.
C27_SanitizeMigrationName ==
    \A name \in InputNames : Sanitized(name) =>
        LET s == Cleaned(name)
            Bad(c) == c \notin (48..57) \cup (97..122) \cup {95}
        IN  /\ IF s = <<>> \/ \E i \in Kept(s) : Bad(s[i])
               THEN err # Nil /\ out = <<>>
               ELSE err = Nil /\ out = SubSeq(s, 1, Cardinality(Kept(s)))
            /\ ((\A i \in DOMAIN name : name[i] \in NameAlphabet) /\ Len(name) <= NameLimit) =>
                  IF Claimed(name) = <<>> THEN err # Nil
                  ELSE err = Nil /\ out = Claimed(name)

C27_Witness ==
    /\ Sanitized(Pad(NameLimit - 1) \o <<45, 65>>)
    /\ err = Nil
    /\ out = Pad(NameLimit - 1) \o <<95>>

\* a safe identifier: one or more letters, digits and underscores
SafeIdentifier(name) ==
    /\ name # <<>>
    /\ RangeOf(name) \subseteq (48..57) \cup (65..90) \cup (97..122) \cup {95}
\* the table name of the Config that New was given
Configured == pre.config[1].MigrationTableName

\* C28: the bookkeeping table name is validated at construction.  New calls
\* SetMigrationTableName at most once, and only with a safe identifier: the
\* configured name, or "migrations" when the configured name is empty.  When
\* the configured name is not empty and not a safe identifier, New returns an
\* error, SetMigrationTableName is not called and the driver keeps its name.
\* The driver's table name is a safe identifier at all times.
C28_TableNameValidated ==
    /\ SafeIdentifier(migrationTableName)
    /\ op.k = "New" =>
          /\ Cardinality(At("SetMigrationTableName")) <= 1
          /\ \A i \in At("SetMigrationTableName") :
                /\ SafeIdentifier(trace[i].n)
                /\ trace[i].n = (IF Configured = <<>> THEN DefaultTableName ELSE Configured)
                /\ migrationTableName = trace[i].n
                /\ err = Nil
          /\ (pre.config # NilConfig /\ Configured # <<>> /\ ~SafeIdentifier(Configured)) =>
                /\ err # Nil
                /\ q = NilQafoia
                /\ ~Called("SetMigrationTableName")
                /\ migrationTableName = DefaultTableName
          /\ err = Nil => Called("SetMigrationTableName")

C28_Witness ==
    /\ op.k = "New"
    /\ err = Nil
    /\ Configured = <<116, 95, 49>>
    /\ Touched("SetMigrationTableName") = { <<116, 95, 49>> }
    /\ migrationTableName = <<116, 95, 49>>

\* the batch l of UnapplyMigrations came to a stop at its k-th migration
UnapplyFailedAt(l, k) ==
    /\ \A j \in 1..(k - 1) :
          /\ l[j] \in RowNames(pre.rows) \ RowNames(rows)
          /\ Times("delete", l[j]) = 1
          /\ Times("down", l[j]) = (IF migrations[l[j]].down = "" THEN 0 ELSE 1)
          /\ Times("onSuccess", l[j]) = 1
          /\ Times("onFailed", l[j]) = 0
    /\ Times("onRunning", l[k]) = 1
    /\ Times("onFailed", l[k]) = 1
    /\ Times("onSuccess", l[k]) = 0
    /\ Times("delete", l[k]) = 0
    /\ trace[Len(trace)] = Hook("onFailed", l[k])
    /\ \A j \in (k + 1)..Len(l) : \A i \in DOMAIN trace : trace[i].n # l[j]
    /\ rows = { r \in pre.rows : \A j \in 1..(k - 1) : r.name # l[j] }
    /\ \A j \in k..Len(l) : l[j] \in RowNames(rows)
    /\ Len(err) = 2
    /\ err[1].n = l[k]
    /\ err[1].msg \in {"failed to unapply migration", "failed to remove migration record"}
    /\ Tail(err) = DbError

\* C29: Rollback is fail-fast.  When the reverse script or the bookkeeping
\* delete of the k-th migration of the batch handed to UnapplyMigrations
\* fails, migrations 1..k-1 have been unapplied and their rows deleted, the
\* row of migration k and the rows of migrations k+1.. are still there,
\* onFailed is invoked once for migration k and is the last thing that
\* happens, migrations k+1.. see no hook and no statement, and Rollback
\* returns the driver's error wrapped with the name of migration k.
C29_RollbackFailFast ==
    (op.k = "Rollback" /\ Called("UnapplyMigrations")) =>
        /\ (err # Nil) = Called("onFailed")
        /\ err # Nil =>
              \E k \in DOMAIN Handed("UnapplyMigrations") :
                  UnapplyFailedAt(Handed("UnapplyMigrations"), k)

C29_Witness ==
    /\ op.k = "Rollback" /\ Called("UnapplyMigrations") /\ err # Nil
    /\ Len(Handed("UnapplyMigrations")) = 3
    /\ UnapplyFailedAt(Handed("UnapplyMigrations"), 2)
    /\ Times("down", Handed("UnapplyMigrations")[2]) = 1

\* the driver operations of the last call, in the order they were called
IsDriverCall(e) == e.k \in DriverCalls
DriverOps ==
    LET dc == SelectSeq(trace, IsDriverCall)
    IN  [i \in DOMAIN dc |-> dc[i].k]
MigrateOrder == <<"CreateMigrationsTable", "GetExecutedMigrations", "ApplyMigrations">>

\* C30: within one Migrate call the driver operations are, in this order,
\* CreateMigrationsTable, GetExecutedMigrations (ascending) and at most one
\* ApplyMigrations, each called only when the one before it succeeded.
\* ApplyMigrations is called exactly when the two steps before it succeeded
\* and something is pending, with the pending migrations; when nothing is
\* pending Migrate returns nil after the query.  A step that fails is the
\* last thing that happens and Migrate returns its error.
C30_MigrateCallOrder ==
    op.k = "Migrate" =>
        /\ DriverOps # <<>>
        /\ DriverOps = SubSeq(MigrateOrder, 1, Len(DriverOps))
        /\ \A i \in At("GetExecutedMigrations") : ~trace[i].r
        /\ \A i \in DOMAIN trace :
              ~IsDriverCall(trace[i]) => \E j \in At("ApplyMigrations") : j < i
        /\ Len(DriverOps) = 1 => (err = DbError /\ Len(trace) = 1 /\ rows = pre.rows)
        /\ Len(DriverOps) = 2 =>
              /\ Len(trace) = 2
              /\ rows = pre.rows
              /\ \/ err = DbError
                 \/ err = Nil /\ Unrecorded(pre.rows) = <<>>
        /\ Len(DriverOps) = 3 =>
              /\ Handed("ApplyMigrations") = Unrecorded(pre.rows)
              /\ Handed("ApplyMigrations") # <<>>
        /\ Unrecorded(pre.rows) = <<>> =>
              /\ ~Called("ApplyMigrations")
              /\ Healthy => err = Nil

C30_Witness ==
    /\ op.k = "Migrate"
    /\ Healthy
    /\ Cardinality(Registered) = 2
    /\ Unrecorded(pre.rows) = <<>>
    /\ trace = << Call("CreateMigrationsTable"), CallRev("GetExecutedMigrations", FALSE) >>
    /\ err = Nil

-----------------------------------------------------------------------------
\* C31: every engine operation that reads the bookkeeping table (Migrate,
\* List, Rollback with a valid step, Reset) first calls CreateMigrationsTable,
\* so that on a database without the table it returns nil when no statement
\* is made to fail.
C31_EnsuresTableFirst ==
    (/\ op.k \in {"Migrate", "List", "Rollback", "Reset"}
     /\ op.k = "Rollback" => op.step >= 1
     /\ ~pre.tbl
     /\ Healthy) =>
        /\ trace # <<>>
        /\ trace[1] = Call("CreateMigrationsTable")
        /\ err = Nil

-----------------------------------------------------------------------------
\* every entry of the registry old is an entry of the registry new, unchanged
Extends(new, old) ==
    \A n \in DOMAIN old : n \in DOMAIN new /\ new[n] = old[n]

\* C32: the registry only grows and only through Register: no step of any
\* operation removes or replaces an entry, and a step that changes the
\* registry is a Register call, which adds only entries made of its arguments.
C32_RegistryOnlyGrows ==
    [][/\ Extends(migrations', migrations)
       /\ migrations' # migrations =>
             /\ op'.k = "Register"
             /\ \A n \in DOMAIN migrations' \ DOMAIN migrations :
                   \E i \in DOMAIN op'.args : op'.args[i] = migrations'[n]]_vars

\* a Register call refused for a name the registry holds with other scripts,
\* after it added another name: the registry grew and the entry was kept
C32_Witness ==
    /\ op.k = "Register"
    /\ err # Nil
    /\ pre.migrations # <<>>
    /\ DOMAIN migrations # DOMAIN pre.migrations
    /\ \E i \in DOMAIN op.args :
          /\ op.args[i].name \in DOMAIN pre.migrations
          /\ op.args[i] # migrations[op.args[i].name]

-----------------------------------------------------------------------------
\* the call failed at the bookkeeping insert of migration n
RecordFailed(e, n) == e # Nil /\ e[1].msg = "failed to record migration" /\ e[1].n = n
\* the forward script of n was sent (an empty script sends nothing)
SentUp(n) == Times("up", n) = (IF migrations[n].up = "" THEN 0 ELSE 1)

\* C33: when the forward script of a migration succeeded and its bookkeeping
\* insert failed, onFailed was invoked for it as the last event, the call
\* returns the error, the migration has no row and nothing undid the script
\* (no reverse script was sent); the Migrate called next hands it to
\* ApplyMigrations as the first pending migration and, unless a statement
\* fails before, sends its forward script again and records it.
C33_InsertFailureReruns ==
    op.k = "Migrate" =>
        /\ \A n \in Registered :
              RecordFailed(err, n) =>
                  /\ trace[Len(trace)] = Hook("onFailed", n)
                  /\ Times("onFailed", n) = 1
                  /\ SentUp(n)
                  /\ ~Called("down")
                  /\ Times("insert", n) = 0
                  /\ n \notin RowNames(rows)
        /\ \A n \in Registered :
              (pre.op = "Migrate" /\ RecordFailed(pre.err, n)) =>
                  /\ n \notin RowNames(pre.rows)
                  /\ Called("ApplyMigrations") =>
                        /\ Handed("ApplyMigrations")[1] = n
                        /\ Times("onRunning", n) = 1
                  /\ Healthy =>
                        /\ SentUp(n)
                        /\ Times("insert", n) = 1
                        /\ n \in RowNames(rows)
                        /\ err = Nil

\* a Migrate whose insert for a migration with a forward script failed,
\* followed by a Migrate that ran that script again and recorded it
C33_Witness ==
    /\ op.k = "Migrate"
    /\ pre.op = "Migrate"
    /\ \E n \in Registered :
          /\ RecordFailed(pre.err, n)
          /\ migrations[n].up # ""
          /\ Times("up", n) = 1
          /\ n \in RowNames(rows)

-----------------------------------------------------------------------------
\* the call failed at the script of migration n: forward or reverse
ScriptFailed(msg, n) == err # Nil /\ err[1].msg = msg /\ err[1].n = n
\* the operations whose only batch is an apply batch, or an unapply batch
Applying == op.k \in {"Migrate", "Fresh"}
Unapplying == op.k = "Rollback"

\* C34: a migration with an empty UpScript is applied without a statement for
\* its script (none is sent, so none can fail), and is recorded with onSuccess
\* invoked; a migration with an empty DownScript is unapplied by the delete of
\* its bookkeeping row alone.
C34_EmptyScripts ==
    \A n \in Registered :
        /\ migrations[n].up = "" =>
              /\ Times("up", n) = 0
              /\ ~ScriptFailed("failed to apply migration", n)
              /\ (Applying /\ Times("onSuccess", n) = 1) =>
                    /\ Times("insert", n) = 1
                    /\ n \in RowNames(rows)
              /\ (Applying /\ Times("onRunning", n) = 1 /\ Healthy) =>
                    Times("onSuccess", n) = 1
        /\ migrations[n].down = "" =>
              /\ Times("down", n) = 0
              /\ ~ScriptFailed("failed to unapply migration", n)
              /\ (Unapplying /\ Times("onSuccess", n) = 1) =>
                    /\ Times("delete", n) = 1
                    /\ n \notin RowNames(rows)
              /\ (Unapplying /\ Times("onRunning", n) = 1 /\ Healthy) =>
                    Times("onSuccess", n) = 1
        /\ (migrations[n].up = "" /\ migrations[n].down = "") =>
              Times("onSuccess", n) = Times("insert", n) + Times("delete", n)

\* a Reset that unapplied and applied again a migration with two empty
\* scripts, next to a migration whose scripts were sent
C34_Witness ==
    /\ op.k = "Reset"
    /\ err = Nil
    /\ Called("up")
    /\ \E n \in Registered :
          /\ migrations[n].up = ""
          /\ migrations[n].down = ""
          /\ Times("onSuccess", n) = 2
          /\ Times("delete", n) = 1
          /\ Times("insert", n) = 1

-----------------------------------------------------------------------------
\* a successful Migrate that directly follows a successful Rollback which
\* began with exactly the registered migrations recorded
RoundTrip ==
    /\ op.k = "Migrate"
    /\ err = Nil
    /\ pre.op = "Rollback"
    /\ pre.ok
    /\ RowNames(pre.rows0) = Registered

\* C35: when the bookkeeping set equals the registry's name set, a successful
\* Rollback(step), step >= 1, followed by a successful Migrate restores the
\* same bookkeeping name set, and Migrate applies exactly the migrations that
\* Rollback unapplied.
C35_RoundTrip ==
    RoundTrip =>
        /\ RowNames(rows) = RowNames(pre.rows0)
        /\ Touched("onSuccess") = pre.succeeded
        /\ Touched("insert") = pre.succeeded
        /\ pre.succeeded = RowNames(pre.rows0) \ RowNames(pre.rows)
        /\ \A n \in pre.succeeded : Times("onSuccess", n) = 1
        /\ Called("ApplyMigrations") = (pre.succeeded # {})
        /\ Called("ApplyMigrations") =>
              RangeOf(Handed("ApplyMigrations")) = pre.succeeded

\* a round trip that unapplied and re-applied two of three migrations
C35_Witness ==
    /\ RoundTrip
    /\ Cardinality(Registered) = 3
    /\ Cardinality(pre.succeeded) = 2
    /\ Cardinality(Touched("insert")) = 2

-----------------------------------------------------------------------------
\* the name is a key of the bookkeeping rows rs
OneRowPerName(rs) == \A r1, r2 \in rs : r1.name = r2.name => r1 = r2
\* the call failed at a bookkeeping insert
InsertRefused == err # Nil /\ \E n \in Names : RecordFailed(err, n)

\* C36: in every state reached by any sequence of Register, Migrate,
\* Rollback, Reset, Fresh, Clean and List, with or without driver failures,
\* the bookkeeping table holds at most one row per migration name; called one
\* after the other the operations never try to record a recorded migration,
\* so an insert is refused only when the driver fails.
C36_OneRowPerName ==
    /\ OneRowPerName(rows)
    /\ \A n \in Registered : Times("insert", n) <= 1
    /\ InsertRefused => op.injected

\* a Reset in which a statement failed after a migration was recorded again,
\* next to rows that stayed
C36_Witness ==
    /\ op.k = "Reset"
    /\ op.injected
    /\ Called("insert")
    /\ Called("delete")
    /\ Cardinality(rows) >= 2

-----------------------------------------------------------------------------
\* C37: whenever MySqlDriver.CleanDatabase returns after it disabled the
\* foreign-key checks (zero tables, a successful drop, a failed table query
\* or a failed drop), FOREIGN_KEY_CHECKS is 1 again; with zero tables the call
\* returns nil and leaves the session and the database as it found them.
C37_ForeignKeyChecksRestored ==
    op.k = "CleanDatabase" =>
        /\ Called("SET FOREIGN_KEY_CHECKS = 0") => foreignKeyChecks
        /\ (~pre.tbl /\ Healthy) =>
              /\ err = Nil
              /\ foreignKeyChecks = pre.foreignKeyChecks
              /\ tbl = pre.tbl
              /\ rows = pre.rows

-----------------------------------------------------------------------------
\* the error is the one wrap of the driver around the database's error, with
\* nothing added by the engine
DriverWrap(msgs) == Len(err) = 2 /\ err[1].msg \in msgs /\ Tail(err) = DbError
\* the migration the error names is the one onFailed was invoked for, once
NamesFailed ==
    /\ Touched("onFailed") = {err[1].n}
    /\ Times("onFailed", err[1].n) = 1
    /\ Times("onRunning", err[1].n) = 1
    /\ Times("onSuccess", err[1].n) = 0
\* the script of the named migration was sent and went through
ScriptDone(k, sql) == sql = "" \/ Times(k, err[1].n) = 1

\* C38: when ApplyMigrations or UnapplyMigrations fails, the error names the
\* migration for which onFailed was invoked and wraps the database's error,
\* the message telling the script from the bookkeeping statement, and Migrate
\* and Rollback return that error as it is; without a driver error in a
\* batch no onFailed is invoked.
C38_ErrorNamesFailedMigration ==
    /\ (op.k = "Migrate" /\ Called("ApplyMigrations")) =>
          /\ (err # Nil) = Called("onFailed")
          /\ err # Nil =>
                /\ DriverWrap({"failed to apply migration", "failed to record migration"})
                /\ NamesFailed
                /\ err[1].n \in RangeOf(Handed("ApplyMigrations"))
                /\ (err[1].msg = "failed to record migration") =
                      ScriptDone("up", migrations[err[1].n].up)
    /\ (op.k = "Rollback" /\ Called("UnapplyMigrations")) =>
          /\ (err # Nil) = Called("onFailed")
          /\ err # Nil =>
                /\ DriverWrap({"failed to unapply migration",
                               "failed to remove migration record"})
                /\ NamesFailed
                /\ err[1].n \in RangeOf(Handed("UnapplyMigrations"))
                /\ (err[1].msg = "failed to remove migration record") =
                      ScriptDone("down", migrations[err[1].n].down)

\* a Migrate that failed at the second migration of its batch: the error
\* names it, not the first
C38_Witness ==
    /\ op.k = "Migrate"
    /\ Called("ApplyMigrations")
    /\ err # Nil
    /\ Len(Handed("ApplyMigrations")) >= 2
    /\ err[1].n = Handed("ApplyMigrations")[2]
    /\ Times("onSuccess", Handed("ApplyMigrations")[1]) = 1
====
